---- MODULE Spec2Model ----
(***************************************************************************)
(* A model of the cricbuzz_livestats dashboard: the schema-driven SQL      *)
(* gateway (utils/db_connection.py) and the scorecard rendering of the     *)
(* live-matches page (pages/live_matches.py), the API client               *)
(* (utils/api_client.py) and the stats table of pages/top_stats.py.        *)
(*                                                                         *)
(* Text is a sequence of one-character strings.  A behaviour of            *)
(* SpecGateway is one call of one gateway function against a server whose  *)
(* answers (connection accepted or refused, statement accepted or          *)
(* rejected) are chosen nondeterministically.  A behaviour of              *)
(* SpecScorecard is one call of show_innings_scorecard on one answer of    *)
(* the scorecard endpoint.  A behaviour of SpecClient is one call of       *)
(* _request, of show_live_matches, of parse_stats_table or of api_get.     *)
(* SpecCalls has the behaviours of SpecGateway and of SpecClient together. *)
(* A behaviour of SpecPages is a session: a sequence of renders of the     *)
(* CRUD page (pages/crud_operations.py) and of the SQL analytics page      *)
(* (pages/sql_queries.py), the catalog kept in the session between them.   *)
(***************************************************************************)
EXTENDS Integers, Sequences, FiniteSets, TLC

VARIABLES
    \* ---- one gateway call: its arguments
    op,             \* the gateway function called
    table,          \* table argument
    where_clause,   \* delete_rows / execute_update argument (text)
    set_clause,     \* execute_update argument (text)
    select_sql,     \* run_select argument (text)
    data,           \* insert_row argument: ordered mapping, <<column, value>> pairs
    limit,          \* fetch_table argument
    server,         \* what the MySQL server holds and how it answers discovery
    tableRows,      \* number of rows of the addressed table
    \* ---- one gateway call: what it did
    pc,             \* "call" before the function ran, then "returned" or "raised"
    raised,         \* exception type that left the function, "none" if it returned
    ret,            \* the returned value
    opened,         \* connections opened by the call (create_connection succeeded)
    closed,         \* connections closed by the call (conn.close() reached)
    executed,       \* statements handed to the server by the call, in order
    \* ---- one scorecard rendering
    sc_pc,          \* "call" before show_innings_scorecard ran, then "done" or "raised"
    api,            \* answer of get_match_scorecard: an error or a document
    view,           \* what the page shows afterwards
    \* ---- one call on the API side
    cl_op,          \* the function called: _request, show_live_matches,
                    \* parse_stats_table, api_get
    cl_pc,          \* "call" before the function ran, then "returned" or "raised"
    http,           \* _request: the environment and what the HTTP request meets
    reply,          \* _request: what it returned or raised, and the requests it sent
    live,           \* show_live_matches: the answer of get_live_matches and the button pressed
    page,           \* show_live_matches: what the page shows afterwards
    stats_json,     \* parse_stats_table: its argument
    frame,          \* parse_stats_table: the DataFrame returned
    \* ---- a browser session on the CRUD and SQL analytics pages
    session_schema, \* st.session_state["schema"]: the catalog held, if any
    render          \* the last render: the page, its inputs and what it did

gwVars == <<op, table, where_clause, set_clause, select_sql, data, limit, server,
            tableRows, pc, raised, ret, opened, closed, executed>>
scVars == <<sc_pc, api, view>>
clVars == <<cl_op, cl_pc, http, reply, live, page, stats_json, frame>>
pgVars == <<session_schema, render>>
vars == <<gwVars, scVars, clVars, pgVars>>

----------------------------------------------------------------------------
(* Bounds of the model *)

MaxClauseLen == 3   \* longest WHERE / SET text drawn
MaxLead == 2        \* longest run of leading whitespace put before a query
MaxRows == 2        \* most rows the addressed table starts with
MaxLimit == 2       \* largest LIMIT drawn
MaxUserDbs == 2     \* most user databases the server lists
MaxPlayers == 2     \* most participants listed in one innings
MaxTypes == 2       \* most entries of typeMatches in a live-matches document
MaxSeries == 2      \* most series entries in a live-matches document
MaxMatches == 2     \* most matches listed in one series
MaxHeaders == 2     \* most headers of a stats document
MaxStatRows == 2    \* most entries under values in a stats document

----------------------------------------------------------------------------
(* Python text operations used by the gateway *)

Whitespace == {" ", "\t", "\n"}

\* str.strip(): drop leading and trailing whitespace
Strip(s) ==
    LET keep == {i \in 1..Len(s) : s[i] \notin Whitespace}
    IN  IF keep = {} THEN <<>>
        ELSE SubSeq(s, CHOOSE i \in keep : \A j \in keep : i <= j,
                       CHOOSE i \in keep : \A j \in keep : i >= j)

LowerChar(c) ==
    CASE c = "S" -> "s" [] c = "E" -> "e" [] c = "L" -> "l" [] c = "C" -> "c"
      [] c = "T" -> "t" [] c = "U" -> "u" [] c = "X" -> "x" [] OTHER -> c

\* str.lower()
Lower(s) == [i \in 1..Len(s) |-> LowerChar(s[i])]

\* str.startswith(prefix)
StartsWith(s, prefix) ==
    /\ Len(s) >= Len(prefix)
    /\ SubSeq(s, 1, Len(prefix)) = prefix

kwSelect == <<"s", "e", "l", "e", "c", "t">>

----------------------------------------------------------------------------
(* The scorecard page before it has rendered anything *)

\* the value of an argument or a result that the call does not have
Nothing == [kind |-> "none"]

\* no call on the API side
ClientIdle ==
    /\ cl_op = "none"
    /\ cl_pc = "idle"
    /\ http = Nothing
    /\ reply = Nothing
    /\ live = Nothing
    /\ page = Nothing
    /\ stats_json = Nothing
    /\ frame = Nothing

\* a session that has rendered nothing: _ensure_schema_state puts None under
\* "schema"
PagesIdle ==
    /\ session_schema = [held |-> FALSE, schema |-> <<>>]
    /\ render = Nothing

NoApi == [kind |-> "none", doc |-> [t |-> "dict", s |-> "", keys |-> <<>>, items |-> <<>>]]
NoView == [kind |-> "none", raw |-> <<>>, innings |-> <<>>]

----------------------------------------------------------------------------
(* What the gateway returns *)

NoRet == [kind |-> "none", affected |-> 0, rows |-> 0, sql |-> <<>>, schema |-> <<>>]
\* variant: only the count is returned
PairRet_count_only(n, sql) == [NoRet EXCEPT !.kind = "affected", !.affected = n]

PairRet(n, sql) == [NoRet EXCEPT !.kind = "affected_sql", !.affected = n, !.sql = sql]
FrameSqlRet(n, sql) == [NoRet EXCEPT !.kind = "frame_sql", !.rows = n, !.sql = sql]
FrameRet(n) == [NoRet EXCEPT !.kind = "frame", !.rows = n]
SchemaRet(s) == [NoRet EXCEPT !.kind = "schema", !.schema = s]

\* the function ends: by return or by an exception, having opened o and closed
\* c connections and handed the statements ex to the server
Ends(how, exc, value, o, c, ex, rows) ==
    /\ pc' = how
    /\ raised' = exc
    /\ ret' = value
    /\ opened' = o
    /\ closed' = c
    /\ executed' = ex
    /\ tableRows' = rows
    /\ UNCHANGED <<op, table, where_clause, set_clause, select_sql, data, limit, server>>
    /\ UNCHANGED <<scVars, clVars, pgVars>>

----------------------------------------------------------------------------
(* SQL text: a sequence of fragments whose concatenation is the statement *)

\* the identifier quote of MySQL (the grave accent, U+0060)
BQ == "<grave>"

RECURSIVE Join(_, _)
\* sep.join(parts), each part a sequence of fragments
Join(parts, sep) ==
    IF parts = <<>> THEN <<>>
    ELSE IF Len(parts) = 1 THEN parts[1]
    ELSE parts[1] \o <<sep>> \o Join(Tail(parts), sep)

\* a statement as cursor.execute / pd.read_sql hands it to the server
Stmt(sql, params) == [sql |-> sql, params |-> params]

----------------------------------------------------------------------------
(* delete_rows *)

\* variant: the clause is tested without strip()
delete_rows_refuses_unstripped(w) == w = <<>>

\* where = where_clause.strip(); if not where: raise ValueError
delete_rows_refuses(w) == Strip(w) = <<>>

delete_sql(t, where) == <<"DELETE FROM ", BQ, t, BQ, " WHERE ">> \o where \o <<";">>

DeleteRows ==
    /\ pc = "call"
    /\ op = "delete_rows"
    /\ IF delete_rows_refuses(where_clause)
       THEN Ends("raised", "ValueError", NoRet, 0, 0, <<>>, tableRows)
       ELSE LET sql == delete_sql(table, Strip(where_clause)) IN
            \E connect_ok \in BOOLEAN, execute_ok \in BOOLEAN, affected \in 0..tableRows :
                IF ~connect_ok
                THEN Ends("raised", "Error", NoRet, 0, 0, <<>>, tableRows)
                ELSE IF ~execute_ok
                THEN Ends("raised", "Error", NoRet, 1, 0, <<Stmt(sql, <<>>)>>, tableRows)
                ELSE Ends("returned", "none", PairRet(affected, sql), 1, 1,
                          <<Stmt(sql, <<>>)>>, tableRows - affected)

----------------------------------------------------------------------------
(* execute_update *)

\* variant: the SET clause is not tested
execute_update_refuses_where_only(s, w) == Strip(w) = <<>>

\* if not set_part: raise ValueError; if not where_part: raise ValueError
execute_update_refuses(s, w) == Strip(s) = <<>> \/ Strip(w) = <<>>

update_sql(t, set_part, where_part) ==
    <<"UPDATE ", BQ, t, BQ, " SET ">> \o set_part \o <<" WHERE ">> \o where_part \o <<";">>

ExecuteUpdate ==
    /\ pc = "call"
    /\ op = "execute_update"
    /\ IF execute_update_refuses(set_clause, where_clause)
       THEN Ends("raised", "ValueError", NoRet, 0, 0, <<>>, tableRows)
       ELSE LET sql == update_sql(table, Strip(set_clause), Strip(where_clause)) IN
            \E connect_ok \in BOOLEAN, execute_ok \in BOOLEAN, affected \in 0..tableRows :
                IF ~connect_ok
                THEN Ends("raised", "Error", NoRet, 0, 0, <<>>, tableRows)
                ELSE IF ~execute_ok
                THEN Ends("raised", "Error", NoRet, 1, 0, <<Stmt(sql, <<>>)>>, tableRows)
                ELSE Ends("returned", "none", PairRet(affected, sql), 1, 1,
                          <<Stmt(sql, <<>>)>>, tableRows)

----------------------------------------------------------------------------
(* insert_row: no check of the mapping precedes the construction of the SQL *)

\* cols: every key of data between identifier quotes
insert_cols(d) == [i \in 1..Len(d) |-> <<BQ, d[i][1], BQ>>]

\* ", ".join(["%s"] * len(cols))
insert_placeholders(n) == Join([i \in 1..n |-> <<"%s">>], ", ")

\* variant: the values are formatted into the text in place of placeholders
insert_sql_literal_values(t, d) ==
    <<"INSERT INTO ", BQ, t, BQ, " (">> \o Join(insert_cols(d), ", ")
        \o <<") VALUES (">> \o Join([i \in 1..Len(d) |-> <<"'", d[i][2], "'">>], ", ")
        \o <<");">>

insert_sql(t, d) ==
    <<"INSERT INTO ", BQ, t, BQ, " (">> \o Join(insert_cols(d), ", ")
        \o <<") VALUES (">> \o insert_placeholders(Len(d)) \o <<");">>

\* values = list(data.values())
insert_values(d) == [i \in 1..Len(d) |-> d[i][2]]

InsertRow ==
    /\ pc = "call"
    /\ op = "insert_row"
    /\ LET sql == insert_sql(table, data)
           stmt == Stmt(sql, insert_values(data))
       IN  \E connect_ok \in BOOLEAN, execute_ok \in BOOLEAN :
               IF ~connect_ok
               THEN Ends("raised", "Error", NoRet, 0, 0, <<>>, tableRows)
               ELSE IF ~execute_ok
               THEN Ends("raised", "Error", NoRet, 1, 0, <<stmt>>, tableRows)
               ELSE Ends("returned", "none", PairRet(1, sql), 1, 1, <<stmt>>,
                         tableRows + 1)

----------------------------------------------------------------------------
(* run_select *)

\* variant: the text is not lower-cased before the test
run_select_allows_case_sensitive(q) == StartsWith(Strip(q), kwSelect)

\* select_sql.strip().lower().startswith("select")
run_select_allows(q) == StartsWith(Lower(Strip(q)), kwSelect)

RunSelect ==
    /\ pc = "call"
    /\ op = "run_select"
    /\ IF ~run_select_allows(select_sql)
       THEN Ends("raised", "ValueError", NoRet, 0, 0, <<>>, tableRows)
       ELSE \E connect_ok \in BOOLEAN, execute_ok \in BOOLEAN, n \in 0..tableRows :
                IF ~connect_ok
                THEN Ends("raised", "Error", NoRet, 0, 0, <<>>, tableRows)
                ELSE IF ~execute_ok
                THEN Ends("raised", "DatabaseError", NoRet, 1, 0,
                          <<Stmt(select_sql, <<>>)>>, tableRows)
                ELSE Ends("returned", "none", FrameRet(n), 1, 1,
                          <<Stmt(select_sql, <<>>)>>, tableRows)

----------------------------------------------------------------------------
(* fetch_table *)

\* int(limit): an int is itself, a float is truncated, a string of digits is
\* parsed; other text raises ValueError and None raises TypeError
int_raises(l) ==
    CASE l.kind = "text" -> "ValueError"
      [] l.kind = "none" -> "TypeError"
      [] OTHER -> "none"

int_value(l) == l.n

\* the argument as str() would print it
raw_text(l) ==
    CASE l.kind = "int" -> <<ToString(l.n)>>
      [] l.kind = "float" -> <<ToString(l.n), ".5">>
      [] l.kind = "digits" -> <<ToString(l.n)>>
      [] l.kind = "text" -> <<"ten">>
      [] OTHER -> <<"None">>

\* variant: the limit is formatted into the text as it was given
fetch_sql_raw_limit(t, l) == <<"SELECT * FROM ", BQ, t, BQ, " LIMIT ">> \o raw_text(l) \o <<";">>

\* the f-string of the SELECT, with int(limit) formatted into it
fetch_sql(t, l) == <<"SELECT * FROM ", BQ, t, BQ, " LIMIT ", ToString(int_value(l)), ";">>

Min(a, b) == IF a <= b THEN a ELSE b

FetchTable ==
    /\ pc = "call"
    /\ op = "fetch_table"
    /\ \E connect_ok \in BOOLEAN, execute_ok \in BOOLEAN :
           IF ~connect_ok
           THEN Ends("raised", "Error", NoRet, 0, 0, <<>>, tableRows)
           ELSE IF int_raises(limit) # "none"
           THEN Ends("raised", int_raises(limit), NoRet, 1, 0, <<>>, tableRows)
           ELSE LET sql == fetch_sql(table, limit) IN
                IF ~execute_ok
                THEN Ends("raised", "DatabaseError", NoRet, 1, 0,
                          <<Stmt(sql, <<>>)>>, tableRows)
                ELSE Ends("returned", "none",
                          FrameSqlRet(Min(int_value(limit), tableRows), sql),
                          1, 1, <<Stmt(sql, <<>>)>>, tableRows)

----------------------------------------------------------------------------
(* get_mysql_schema *)

\* variant: sys is not in the set
excluded_without_sys == {"information_schema", "performance_schema", "mysql"}

\* excluded = {"information_schema", "performance_schema", "mysql", "sys"}
excluded == {"information_schema", "performance_schema", "mysql", "sys"}

\* the column rows INFORMATION_SCHEMA.COLUMNS holds for a table:
\* <<COLUMN_NAME, DATA_TYPE, IS_NULLABLE, COLUMN_KEY, COLUMN_DEFAULT, EXTRA>>
ServerColumns(t) ==
    IF t = "players"
    THEN << <<"player_id", "int", "NO", "PRI", "NULL", "auto_increment">>,
            <<"name", "varchar", "YES", "", "NULL", "">> >>
    ELSE IF t = "batting_data"
    THEN << <<"id", "int", "NO", "PRI", "NULL", "auto_increment">>,
            <<"player", "varchar", "NO", "", "NULL", "">>,
            <<"runs", "int", "YES", "", "0", "">> >>
    ELSE << <<"venue", "varchar", "NO", "", "NULL", "">> >>

\* the dict built of one column row
column_descriptor(c) ==
    [name |-> c[1], type |-> c[2], nullable |-> c[3], key |-> c[4],
     default |-> c[5], extra |-> c[6]]

show_databases == <<"SHOW DATABASES">>
show_base_tables == <<"SHOW FULL TABLES WHERE Table_type = 'BASE TABLE'">>
show_views == <<"SHOW FULL TABLES WHERE Table_type = 'VIEW'">>
col_sql == <<"SELECT COLUMN_NAME, DATA_TYPE, IS_NULLABLE, COLUMN_KEY, COLUMN_DEFAULT, EXTRA ",
             "FROM INFORMATION_SCHEMA.COLUMNS WHERE TABLE_SCHEMA = %s AND TABLE_NAME = %s ",
             "ORDER BY ORDINAL_POSITION">>

\* db_info of a database whose introspection went through
db_info(db) ==
    [tables |-> [i \in 1..Len(db.tables) |->
                    <<db.tables[i],
                      [j \in 1..Len(ServerColumns(db.tables[i])) |->
                          column_descriptor(ServerColumns(db.tables[i])[j])]>>],
     views |-> db.views,
     functions |-> <<>>,
     procedures |-> <<>>]

\* variant: the database is entered in the catalog before its views are listed
discover_one_keeps_partial(db, acc) ==
    IF db.name \in excluded \/ ~db.connect_ok THEN acc
    ELSE LET a1 == [acc EXCEPT !.opened = @ + 1,
                               !.executed = Append(@, Stmt(show_base_tables, <<>>))]
         IN  IF db.fail_at = "tables" \/ db.tables = <<>> THEN a1
             ELSE IF db.fail_at = "columns"
             THEN [a1 EXCEPT !.executed =
                       Append(@, Stmt(col_sql, <<db.name, db.tables[1]>>))]
             ELSE [a1 EXCEPT !.closed = IF db.fail_at = "views" THEN @ ELSE @ + 1,
                             !.executed = @ \o
                                 [i \in 1..Len(db.tables) |->
                                     Stmt(col_sql, <<db.name, db.tables[i]>>)]
                                 \o <<Stmt(show_views, <<>>)>>,
                             !.schema = Append(@, <<db.name, db_info(db)>>)]

\* variant: a database without base tables is entered in the catalog as well
discover_one_keeps_tableless(db, acc) ==
    IF db.name \in excluded \/ ~db.connect_ok THEN acc
    ELSE LET a1 == [acc EXCEPT !.opened = @ + 1,
                               !.executed = Append(@, Stmt(show_base_tables, <<>>))]
         IN  IF db.fail_at = "tables" THEN a1
             ELSE IF db.tables # <<>> /\ db.fail_at = "columns"
             THEN [a1 EXCEPT !.executed =
                       Append(@, Stmt(col_sql, <<db.name, db.tables[1]>>))]
             ELSE LET a2 == [a1 EXCEPT !.executed = @ \o
                                 [i \in 1..Len(db.tables) |->
                                     Stmt(col_sql, <<db.name, db.tables[i]>>)]
                                 \o <<Stmt(show_views, <<>>)>>]
                  IN  IF db.fail_at = "views" THEN a2
                      ELSE [a2 EXCEPT !.closed = @ + 1,
                                      !.schema = Append(@, <<db.name, db_info(db)>>)]

\* the body of the loop for one database; acc is what the loop has done so far
discover_one(db, acc) ==
    IF db.name \in excluded THEN acc
    ELSE IF ~db.connect_ok THEN acc            \* create_connection raised: except Error
    ELSE LET a1 == [acc EXCEPT !.opened = @ + 1,
                               !.executed = Append(@, Stmt(show_base_tables, <<>>))]
         IN  IF db.fail_at = "tables" THEN a1  \* except Error: continue
             ELSE IF db.tables = <<>> THEN a1  \* if not tables: continue
             ELSE IF db.fail_at = "columns"
             THEN [a1 EXCEPT !.executed =
                       Append(@, Stmt(col_sql, <<db.name, db.tables[1]>>))]
             ELSE LET a2 == [a1 EXCEPT !.executed = @ \o
                                 [i \in 1..Len(db.tables) |->
                                     Stmt(col_sql, <<db.name, db.tables[i]>>)]
                                 \o <<Stmt(show_views, <<>>)>>]
                  IN  IF db.fail_at = "views" THEN a2
                      ELSE [a2 EXCEPT !.closed = @ + 1,
                                      !.schema = Append(@, <<db.name, db_info(db)>>)]

RECURSIVE discover_all(_, _)
\* for db_name in all_databases
discover_all(dbs, acc) ==
    IF dbs = <<>> THEN acc
    ELSE discover_all(Tail(dbs), discover_one(Head(dbs), acc))

GetMysqlSchema ==
    /\ pc = "call"
    /\ op = "get_mysql_schema"
    /\ IF server.admin = "connect_error"
       THEN Ends("raised", "Error", NoRet, 0, 0, <<>>, tableRows)
       ELSE IF server.admin = "show_error"
       THEN Ends("raised", "Error", NoRet, 1, 0, <<Stmt(show_databases, <<>>)>>, tableRows)
       ELSE LET done == discover_all(server.databases,
                            [schema |-> <<>>, opened |-> 1, closed |-> 0,
                             executed |-> <<Stmt(show_databases, <<>>)>>])
            IN  Ends("returned", "none", SchemaRet(done.schema),
                     done.opened, done.closed + 1, done.executed, tableRows)

----------------------------------------------------------------------------
(* The arguments and servers drawn *)

\* clauses of spaces and letters, and some holding the other whitespace
ClauseChars == {" ", "x"}
Clauses ==
    UNION {[1..n -> ClauseChars] : n \in 0..MaxClauseLen}
    \cup {<<"\n">>, <<"\t", "\n">>, <<"\t", "x", "\n">>, <<"x", "\n", "x">>}

Tables == {"players", "venues"}

InsertColumns == {"name", "country"}
InsertValues == {"Kohli", "India"}
\* ordered mappings with distinct keys
DataMaps ==
    {<<>>}
    \cup {<<<<c, v>>>> : c \in InsertColumns, v \in InsertValues}
    \cup {d \in {<<<<c1, v1>>, <<c2, v2>>>> :
                    c1 \in InsertColumns, c2 \in InsertColumns,
                    v1 \in InsertValues, v2 \in InsertValues} : d[1][1] # d[2][1]}

Limits == [kind : {"int", "float", "digits", "text", "none"}, n : 0..MaxLimit]

\* query texts: leading whitespace, a first word, a rest
LeadChars == {" ", "\t", "\n"}
Leads == UNION {[1..n -> LeadChars] : n \in 0..MaxLead}
SelectSpellings ==
    {<<s1, e2, l3, e4, c5, t6>> :
        s1 \in {"s", "S"}, e2 \in {"e", "E"}, l3 \in {"l", "L"},
        e4 \in {"e", "E"}, c5 \in {"c", "C"}, t6 \in {"t", "T"}}
FirstWords ==
    SelectSpellings
    \cup {SubSeq(kwSelect, 1, n) : n \in 0..5}
    \cup {<<"u", "p", "d", "a", "t", "e">>, <<"U", "P", "D", "A", "T", "E">>,
          <<"x", "s", "e", "l", "e", "c", "t">>, <<"s", "e", " ", "l", "e", "c", "t">>,
          <<"-", "-", "s", "e", "l", "e", "c", "t">>}
Rests ==
    {<<>>, <<"x">>,
     <<" ", "*", " ", "f", "r", "o", "m", " ", "p", "l", "a", "y", "e", "r", "s">>,
     <<" ", "p", "l", "a", "y", "e", "r", "s", " ", "s", "e", "t", " ", "x", "=", "1">>}
Queries == {l \o w \o r : l \in Leads, w \in FirstWords, r \in Rests}

DbKinds ==
    {[connect_ok |-> TRUE, fail_at |-> "none", tables |-> <<"players", "venues">>, views |-> <<>>],
     [connect_ok |-> TRUE, fail_at |-> "none", tables |-> <<"players">>, views |-> <<"v_top">>],
     [connect_ok |-> TRUE, fail_at |-> "none", tables |-> <<>>, views |-> <<"v_top">>],
     [connect_ok |-> TRUE, fail_at |-> "none", tables |-> <<>>, views |-> <<>>],
     [connect_ok |-> FALSE, fail_at |-> "none", tables |-> <<"players">>, views |-> <<>>],
     [connect_ok |-> TRUE, fail_at |-> "tables", tables |-> <<"players">>, views |-> <<>>],
     [connect_ok |-> TRUE, fail_at |-> "columns", tables |-> <<"players", "venues">>, views |-> <<>>],
     [connect_ok |-> TRUE, fail_at |-> "views", tables |-> <<"players">>, views |-> <<"v_top">>]}

SystemDbKinds == {k \in DbKinds : k.fail_at = "none" /\ k.tables = <<"players">>}

UserDbNames == {"cricbuzz_db"} \cup {"db" \o ToString(i) : i \in 2..MaxUserDbs}
SystemDbNames == <<"information_schema", "mysql", "performance_schema", "sys">>

Named(n, k) == [name |-> n, connect_ok |-> k.connect_ok, fail_at |-> k.fail_at,
                tables |-> k.tables, views |-> k.views]

RECURSIVE SeqOfSet(_)
SeqOfSet(S) == IF S = {} THEN <<>>
               ELSE LET x == CHOOSE y \in S : TRUE IN <<x>> \o SeqOfSet(S \ {x})

\* what SHOW DATABASES lists: some user databases, then some system databases,
\* the system databases all open to the user or all closed to them
DatabaseLists ==
    {SeqOfSet({Named(n, f[n]) : n \in DOMAIN f})
        \o [i \in 1..Len(SelectSeq(SystemDbNames, LAMBDA n : n \in sys)) |->
               Named(SelectSeq(SystemDbNames, LAMBDA n : n \in sys)[i], k)] :
        f \in UNION {[U -> DbKinds] : U \in SUBSET UserDbNames},
        sys \in SUBSET {SystemDbNames[i] : i \in 1..Len(SystemDbNames)},
        k \in SystemDbKinds}

Servers == [admin : {"ok", "connect_error", "show_error"}, databases : DatabaseLists]

NoServer == [admin |-> "ok", databases |-> <<>>]
NoLimit == [kind |-> "none", n |-> 0]

----------------------------------------------------------------------------
(* SpecGateway *)

ScorecardIdle ==
    /\ sc_pc = "idle"
    /\ api = NoApi
    /\ view = NoView

InitGateway ==
    /\ pc = "call"
    /\ raised = "none"
    /\ ret = NoRet
    /\ opened = 0
    /\ closed = 0
    /\ executed = <<>>
    /\ op \in {"get_mysql_schema", "fetch_table", "run_select", "insert_row",
               "delete_rows", "execute_update"}
    /\ IF op \in {"get_mysql_schema", "run_select"}
       THEN table = "players" ELSE table \in Tables
    /\ IF op = "get_mysql_schema" THEN tableRows = 0
       ELSE IF op = "run_select" THEN tableRows = MaxRows
       ELSE tableRows \in 0..MaxRows
    /\ IF op \in {"delete_rows", "execute_update"}
       THEN where_clause \in Clauses ELSE where_clause = <<>>
    /\ IF op = "execute_update" THEN set_clause \in Clauses ELSE set_clause = <<>>
    /\ IF op = "run_select" THEN select_sql \in Queries ELSE select_sql = <<>>
    /\ IF op = "insert_row" THEN data \in DataMaps ELSE data = <<>>
    /\ IF op = "fetch_table" THEN limit \in Limits ELSE limit = NoLimit
    /\ IF op = "get_mysql_schema" THEN server \in Servers ELSE server = NoServer
    /\ ScorecardIdle
    /\ ClientIdle
    /\ PagesIdle

NextGateway ==
    \/ GetMysqlSchema
    \/ FetchTable
    \/ RunSelect
    \/ InsertRow
    \/ DeleteRows
    \/ ExecuteUpdate

SpecGateway == InitGateway /\ [][NextGateway]_vars

----------------------------------------------------------------------------
(* JSON documents as Python holds them *)

\* A value is a scalar (named by its JSON literal), a list, or a dict that
\* keeps its keys in insertion order.
Scalar(lit) == [t |-> "scalar", s |-> lit, keys |-> <<>>, items |-> <<>>]
List(items) == [t |-> "list", s |-> "", keys |-> <<>>, items |-> items]
Dict(keys, items) == [t |-> "dict", s |-> "", keys |-> keys, items |-> items]
\* a dict of <<key, value>> pairs
DictOf(pairs) == Dict([i \in 1..Len(pairs) |-> pairs[i][1]],
                      [i \in 1..Len(pairs) |-> pairs[i][2]])

None == Scalar("null")
EmptyStr == Scalar("\"\"")
Zero == Scalar("0")

\* bool(v): None, 0, "", false and the empty containers are false
Truthy(v) ==
    IF v.t = "scalar" THEN v.s \notin {"null", "0", "\"\"", "false"}
    ELSE v.items # <<>>

HasKey(d, k) == \E i \in 1..Len(d.keys) : d.keys[i] = k

\* d.get(k, default)
GetOr(d, k, default) ==
    IF HasKey(d, k)
    THEN d.items[CHOOSE i \in 1..Len(d.keys) : d.keys[i] = k]
    ELSE default

\* d.get(k)
Get(d, k) == GetOr(d, k, None)

\* a or b
Or(a, b) == IF Truthy(a) THEN a ELSE b

----------------------------------------------------------------------------
(* show_innings_scorecard *)

\* variant: the first key present wins, empty or not
innings_list_first_present(d) ==
    IF HasKey(d, "scorecard") THEN Get(d, "scorecard")
    ELSE IF HasKey(d, "scoreCard") THEN Get(d, "scoreCard")
    ELSE IF HasKey(d, "innings") THEN Get(d, "innings")
    ELSE Get(d, "scoreCards")

\* variant: innings is looked up before scoreCard
innings_list_innings_first(d) ==
    Or(Get(d, "scorecard"), Or(Get(d, "innings"),
       Or(Get(d, "scoreCard"), Get(d, "scoreCards"))))

\* data.get("scorecard") or data.get("scoreCard") or data.get("innings")
\*     or data.get("scoreCards")
innings_list(d) ==
    Or(Get(d, "scorecard"), Or(Get(d, "scoreCard"),
       Or(Get(d, "innings"), Get(d, "scoreCards"))))

\* innings.get("batteamname") or ... or ""
bat_team_name(innings) ==
    Or(Get(innings, "batteamname"), Or(Get(innings, "batTeamName"),
       Or(Get(innings, "batTeamShortName"), Or(Get(innings, "batTeam"), EmptyStr))))

\* variant: only the list form is read
participants_list_only(innings, list_key, dict_key) ==
    IF Get(innings, list_key).t = "list" THEN Get(innings, list_key).items
    ELSE <<>>

\* batsmen_source / bowlers_source: the list under list_key if there is one,
\* else the values of the dict under dict_key if there is one, else nothing
participants(innings, list_key, dict_key) ==
    IF Get(innings, list_key).t = "list" THEN Get(innings, list_key).items
    ELSE IF Get(innings, dict_key).t = "dict" THEN Get(innings, dict_key).items
    ELSE <<>>

\* the columns of a batting row: <<column, first key, second key, default>>
BattingColumns ==
    << <<"Name", "name", "batName", EmptyStr>>,
       <<"Runs", "runs", "r", Zero>>,
       <<"Balls", "balls", "b", Zero>>,
       <<"4s", "fours", "4s", Zero>>,
       <<"6s", "sixes", "6s", Zero>>,
       <<"SR", "strkrate", "sr", Zero>>,
       <<"Out", "outdec", "howOut", EmptyStr>> >>

\* the columns of a bowling row
BowlingColumns ==
    << <<"Name", "name", "bowlName", EmptyStr>>,
       <<"Overs", "overs", "ov", Zero>>,
       <<"Runs", "runs", "r", Zero>>,
       <<"Wickets", "wickets", "w", Zero>>,
       <<"Maidens", "maidens", "m", Zero>>,
       <<"Economy", "economy", "econ", Zero>> >>

\* record.get(first) or record.get(second, default)
field(record, col) == Or(Get(record, col[2]), GetOr(record, col[3], col[4]))

\* the row appended for one batsman or bowler: <<column, value>> pairs
row(record, columns) ==
    [c \in 1..Len(columns) |-> <<columns[c][1], field(record, columns[c])>>]

batting_rows(innings) ==
    LET src == participants(innings, "batsman", "batsmenData")
    IN  [p \in 1..Len(src) |-> row(src[p], BattingColumns)]

bowling_rows(innings) ==
    LET src == participants(innings, "bowler", "bowlersData")
    IN  [p \in 1..Len(src) |-> row(src[p], BowlingColumns)]

\* what one pass of the loop over the innings shows
innings_view(i, innings) ==
    [title |-> <<i, bat_team_name(innings)>>,
     batting |-> batting_rows(innings),
     bowling |-> bowling_rows(innings)]

View(kind, raw, shown) == [kind |-> kind, raw |-> raw, innings |-> shown]

\* variant: the empty document is not told apart
scorecard_view_without_empty_check(a) ==
    IF a.kind = "error" THEN View("error", <<>>, <<>>)
    ELSE LET found == innings_list(a.doc) IN
         IF ~Truthy(found) THEN View("fallback", <<a.doc>>, <<>>)
         ELSE IF found.t = "scalar" THEN View("TypeError", <<>>, <<>>)
         ELSE View("scorecard", <<>>,
                   [i \in 1..Len(found.items) |-> innings_view(i, found.items[i])])

\* the page after show_innings_scorecard has run on the answer a
scorecard_view(a) ==
    IF a.kind = "error" THEN View("error", <<>>, <<>>)
    ELSE IF ~Truthy(a.doc) THEN View("no_response", <<>>, <<>>)
    ELSE LET found == innings_list(a.doc) IN
         IF ~Truthy(found) THEN View("fallback", <<a.doc>>, <<>>)
         ELSE IF found.t = "scalar" THEN View("TypeError", <<>>, <<>>)
         ELSE View("scorecard", <<>>,
                   [i \in 1..Len(found.items) |-> innings_view(i, found.items[i])])

ShowInningsScorecard ==
    /\ sc_pc = "call"
    /\ view' = scorecard_view(api)
    /\ sc_pc' = IF view'.kind = "TypeError" THEN "raised" ELSE "done"
    /\ UNCHANGED api
    /\ UNCHANGED <<gwVars, clVars, pgVars>>

----------------------------------------------------------------------------
(* The answers of the scorecard endpoint drawn *)

Absent == [t |-> "absent", s |-> "", keys |-> <<>>, items |-> <<>>]
Str(x) == Scalar("\"" \o x \o "\"")

\* the dict holding, in the order given, the keys that f does not leave absent
Present(f, order) ==
    LET ks == SelectSeq(order, LAMBDA k : f[k] # Absent)
    IN  DictOf([i \in 1..Len(ks) |-> <<ks[i], f[ks[i]]>>])

\* an innings that names its batting team and lists no participant
TeamOnly(team) == DictOf(<< <<"batteamname", Str(team)>> >>)

\* what a document may hold under one of the keys looked up for the innings
CollectionValues ==
    {None, Scalar("5"), List(<<>>), Dict(<<>>, <<>>),
     List(<<TeamOnly("IND")>>),
     List(<<TeamOnly("AUS"), TeamOnly("ENG")>>),
     Dict(<<"2", "1">>, <<TeamOnly("PAK"), TeamOnly("NZ")>>)}

\* documents that differ in which keys they hold and what is under them
KeyDocs ==
    {Present(f, <<"status", "scoreCards", "innings", "scoreCard", "scorecard">>) :
        f \in [status : {Absent, Str("Live")},
               scoreCards : CollectionValues \cup {Absent},
               innings : CollectionValues \cup {Absent},
               scoreCard : CollectionValues \cup {Absent},
               scorecard : CollectionValues \cup {Absent}]}

\* the values a participant record may hold under either key of a column
AliasValues == {Absent, None, Zero, EmptyStr, Scalar("5"), Scalar("7")}

\* records holding one column's two keys, each absent or with some value
AliasRecords(columns) ==
    {Present([k \in {columns[c][2], columns[c][3]} |->
                 IF k = columns[c][2] THEN a ELSE b],
             <<columns[c][3], columns[c][2]>>) :
        c \in 1..Len(columns), a \in AliasValues, b \in AliasValues}

BatsmanPool ==
    {DictOf(<< <<"name", Str("Kohli")>>, <<"runs", Scalar("5")>> >>),
     DictOf(<< <<"batName", Str("Smith")>>, <<"r", Scalar("7")>> >>),
     Dict(<<>>, <<>>)}
BowlerPool ==
    {DictOf(<< <<"name", Str("Bumrah")>>, <<"wickets", Scalar("5")>> >>),
     DictOf(<< <<"bowlName", Str("Starc")>>, <<"w", Scalar("7")>> >>),
     Dict(<<>>, <<>>)}

Lineups(pool) == UNION {[1..n -> pool] : n \in 0..MaxPlayers}

\* player ids, in an order that is not their sorted order
PlayerIds(n) == [i \in 1..n |-> "p" \o ToString(100 - i)]
Mapping(records) == Dict(PlayerIds(Len(records)), records)

\* one innings per way of supplying a line-up under the two keys
ShapeInnings(pool, list_key, dict_key) ==
    UNION {{DictOf(<< <<list_key, List(l)>> >>),
            DictOf(<< <<dict_key, Mapping(l)>> >>),
            DictOf(<< <<list_key, Mapping(l)>> >>),
            DictOf(<< <<dict_key, List(l)>> >>),
            DictOf(<< <<dict_key, Mapping(l)>>, <<list_key, List(<<>>)>> >>)} :
           l \in Lineups(pool)}

TeamKeys == <<"batteamname", "batTeamName", "batTeamShortName", "batTeam">>
TeamInnings ==
    {Present(f, <<"batTeam", "batTeamShortName", "batTeamName", "batteamname">>) :
        f \in {g \in [{"batteamname", "batTeamName", "batTeamShortName", "batTeam"} ->
                        {Absent, EmptyStr, Str("long"), Str("short")}] :
                  /\ g["batTeamShortName"] # Str("long")
                  /\ g["batteamname"] # Str("short")}}

FullInnings ==
    {DictOf(<< <<"batTeamName", Str("IND")>>,
               <<"batsman", List(b)>>,
               <<"bowlersData", Mapping(w)>> >>) :
        b \in {l \in Lineups(BatsmanPool) : Len(l) = 1},
        w \in {l \in Lineups(BowlerPool) : Len(l) = 1}}

RichInnings ==
    {DictOf(<< <<"batsman", List(<<r>>)>> >>) : r \in AliasRecords(BattingColumns)}
    \cup {DictOf(<< <<"bowlersData", Mapping(<<r>>)>> >>) : r \in AliasRecords(BowlingColumns)}
    \cup ShapeInnings(BatsmanPool, "batsman", "batsmenData")
    \cup ShapeInnings(BowlerPool, "bowler", "bowlersData")
    \cup TeamInnings
    \cup FullInnings

RichDocs ==
    {DictOf(<< <<"scorecard", List(<<i>>)>> >>) : i \in RichInnings}
    \cup {DictOf(<< <<"scoreCard", Dict(<<"inn1">>, <<i>>)>> >>) : i \in FullInnings}

ApiAnswers ==
    {[kind |-> "error", doc |-> Dict(<<>>, <<>>)]}
    \cup {[kind |-> "doc", doc |-> d] : d \in KeyDocs \cup RichDocs}

----------------------------------------------------------------------------
(* SpecScorecard *)

GatewayIdle ==
    /\ op = "none"
    /\ table = "players"
    /\ where_clause = <<>>
    /\ set_clause = <<>>
    /\ select_sql = <<>>
    /\ data = <<>>
    /\ limit = NoLimit
    /\ server = NoServer
    /\ tableRows = 0
    /\ pc = "idle"
    /\ raised = "none"
    /\ ret = NoRet
    /\ opened = 0
    /\ closed = 0
    /\ executed = <<>>

InitScorecard ==
    /\ sc_pc = "call"
    /\ api \in ApiAnswers
    /\ view = NoView
    /\ GatewayIdle
    /\ ClientIdle
    /\ PagesIdle

NextScorecard == ShowInningsScorecard

SpecScorecard == InitScorecard /\ [][NextScorecard]_vars

----------------------------------------------------------------------------
(* _request of the API client *)

\* what _request did: how it ended, the document returned, why it raised and
\* what it put in the message, and how many HTTP requests it had sent
Reply(kind, exc, why, doc, sent) ==
    [kind |-> kind, exc |-> exc, why |-> why, doc |-> doc, sent |-> sent]

\* variant: only the statuses from 400 on are errors
status_is_error_from_400(status) == status >= 400

\* if resp.status_code != 200
status_is_error(status) == status # 200

\* variant: a request that failed on the network is sent a second time
request_retries_network(h) ==
    IF h.api_key # "set"
    THEN Reply("raised", "CricbuzzAPIError", "key", None, 0)
    ELSE IF h.network # "ok"
    THEN Reply("raised", "CricbuzzAPIError", "network", None, 2)
    ELSE IF status_is_error(h.status)
    THEN Reply("raised", "CricbuzzAPIError", "status", h.body.doc, 1)
    ELSE IF ~h.body.parses
    THEN Reply("raised", "CricbuzzAPIError", "json", None, 1)
    ELSE Reply("returned", "none", "", h.body.doc, 1)

\* variant: the headers are built after the request was sent
request_network_first(h) ==
    IF h.network # "ok"
    THEN Reply("raised", "CricbuzzAPIError", "network", None, 1)
    ELSE IF h.api_key # "set"
    THEN Reply("raised", "CricbuzzAPIError", "key", None, 1)
    ELSE IF status_is_error(h.status)
    THEN Reply("raised", "CricbuzzAPIError", "status", h.body.doc, 1)
    ELSE IF ~h.body.parses
    THEN Reply("raised", "CricbuzzAPIError", "json", None, 1)
    ELSE Reply("returned", "none", "", h.body.doc, 1)

\* _get_headers raises without a key, before requests.get; a RequestException
\* becomes a CricbuzzAPIError; so does a status other than 200, with the body
\* parsed if it parses and as text if not; so does a body of a 200 answer on
\* which resp.json() raises ValueError
request(h) ==
    IF h.api_key # "set"
    THEN Reply("raised", "CricbuzzAPIError", "key", None, 0)
    ELSE IF h.network # "ok"
    THEN Reply("raised", "CricbuzzAPIError", "network", None, 1)
    ELSE IF status_is_error(h.status)
    THEN Reply("raised", "CricbuzzAPIError", "status", h.body.doc, 1)
    ELSE IF ~h.body.parses
    THEN Reply("raised", "CricbuzzAPIError", "json", None, 1)
    ELSE Reply("returned", "none", "", h.body.doc, 1)

Request ==
    /\ cl_pc = "call"
    /\ cl_op = "_request"
    /\ reply' = request(http)
    /\ cl_pc' = reply'.kind
    /\ UNCHANGED <<cl_op, http, live, page, stats_json, frame>>
    /\ UNCHANGED <<gwVars, scVars, pgVars>>

----------------------------------------------------------------------------
(* parse_stats_table *)

\* a DataFrame, or the exception raised instead of one
Frame(kind, exc, columns, rows) ==
    [kind |-> kind, exc |-> exc, columns |-> columns, rows |-> rows]

\* variant: only the empty document is told apart
stats_unusable_empty_only(sj) == ~Truthy(sj)

\* not stats_json or "headers" not in stats_json or "values" not in stats_json
stats_unusable(sj) == ~Truthy(sj) \/ ~HasKey(sj, "headers") \/ ~HasKey(sj, "values")

\* [row.get("values", []) for row in stats_json["values"]]
stats_rows(sj) ==
    LET entries == Get(sj, "values").items
    IN  [i \in 1..Len(entries) |-> GetOr(entries[i], "values", List(<<>>)).items]

\* pd.DataFrame(rows, columns=headers): rows of unequal length are filled up
\* to the longest; with at least one row, a width other than the number of
\* headers raises ValueError
data_frame(rows, headers) ==
    LET w == IF rows = <<>> THEN Len(headers)
             ELSE CHOOSE n \in 0..(MaxHeaders + 2) :
                      /\ \A i \in 1..Len(rows) : Len(rows[i]) <= n
                      /\ \E i \in 1..Len(rows) : Len(rows[i]) = n
    IN  IF w # Len(headers) THEN Frame("raised", "ValueError", <<>>, <<>>)
        ELSE Frame("frame", "none", headers,
                   [i \in 1..Len(rows) |->
                       [c \in 1..w |-> IF c <= Len(rows[i]) THEN rows[i][c] ELSE None]])

parse_stats_table(sj) ==
    IF stats_unusable(sj) THEN Frame("frame", "none", <<>>, <<>>)
    ELSE IF HasKey(sj, "headers") /\ HasKey(sj, "values")
    THEN data_frame(stats_rows(sj), Get(sj, "headers").items)
    ELSE IF ~HasKey(sj, "headers") THEN Frame("raised", "KeyError", <<"headers">>, <<>>)
    ELSE Frame("raised", "KeyError", <<"values">>, <<>>)

ParseStatsTable ==
    /\ cl_pc = "call"
    /\ cl_op = "parse_stats_table"
    /\ frame' = parse_stats_table(stats_json)
    /\ cl_pc' = IF frame'.kind = "raised" THEN "raised" ELSE "returned"
    /\ UNCHANGED <<cl_op, http, reply, live, page, stats_json>>
    /\ UNCHANGED <<gwVars, scVars, pgVars>>

----------------------------------------------------------------------------
(* format_time *)

\* int(epoch_ms) for the timestamps drawn, in milliseconds; -1 where int() or
\* datetime.fromtimestamp raises (text that is no number, a mapping, a time
\* beyond the range of datetime)
int_epoch(v) ==
    CASE v.s \in {"120000", "\"120000\""} -> 120000
      [] v.s \in {"150000", "150000.7"} -> 150000
      [] v.s = "7260000" -> 7260000
      [] OTHER -> -1

\* in the variants: the exception that leaves instead of a value
Escapes(exc) == [t |-> "raise", s |-> exc, keys |-> <<>>, items |-> <<>>]

\* variant: the exception of the conversion is not caught
format_time_uncaught(epoch_ms) ==
    IF ~Truthy(epoch_ms) THEN Scalar("\"N/A\"")
    ELSE IF int_epoch(epoch_ms) < 0 THEN Escapes("ValueError")
    ELSE Scalar("minute " \o ToString(int_epoch(epoch_ms) \div 60000) \o " of 01 Jan 1970")

\* "N/A" for a falsy value and where the conversion raises (except Exception);
\* else strftime("%d %b %Y, %I:%M %p"), the time to the minute
format_time(epoch_ms) ==
    IF ~Truthy(epoch_ms) THEN Scalar("\"N/A\"")
    ELSE IF int_epoch(epoch_ms) < 0 THEN Scalar("\"N/A\"")
    ELSE Scalar("minute " \o ToString(int_epoch(epoch_ms) \div 60000) \o " of 01 Jan 1970")

----------------------------------------------------------------------------
(* show_live_matches: the grouping of series to matches *)

EmptyDict == Dict(<<>>, <<>>)

\* str.upper() of the match types drawn
Upper(v) == IF v.s = "\"Test\"" \/ v.s = "\"test\"" THEN Scalar("\"TEST\"") ELSE v

\* variant: the key is subscripted, data["typeMatches"]
type_matches_subscript(d) ==
    IF HasKey(d, "typeMatches") THEN Get(d, "typeMatches") ELSE Escapes("KeyError")

\* data.get("typeMatches", [])
type_matches(d) == GetOr(d, "typeMatches", List(<<>>))

RECURSIVE Flatten(_)
Flatten(ss) == IF ss = <<>> THEN <<>> ELSE Head(ss) \o Flatten(Tail(ss))

\* the passes of the inner loop, in order, each <<match_type, wrapper>>
series_wrappers(tms) ==
    Flatten([t \in 1..Len(tms) |->
        LET match_type == Upper(GetOr(tms[t], "matchType", Scalar("\"UNKNOWN\"")))
            series == GetOr(tms[t], "seriesMatches", List(<<>>)).items
        IN  [n \in 1..Len(series) |->
                <<match_type, GetOr(series[n], "seriesAdWrapper", EmptyDict)>>]])

\* f"{series_name} ({match_type})"
series_key(wrapper, match_type) ==
    <<GetOr(wrapper, "seriesName", Scalar("\"Unnamed Series\"")).s, " (", match_type.s, ")">>

\* d[k] = v on a dict that keeps insertion order
SetItem(d, k, v) ==
    IF HasKey(d, k)
    THEN Dict(d.keys, [i \in 1..Len(d.keys) |-> IF d.keys[i] = k THEN v ELSE d.items[i]])
    ELSE Dict(Append(d.keys, k), Append(d.items, v))

RECURSIVE series_options(_, _)
\* the two loops: a wrapper without matches is passed over, the others are
\* stored under their key
series_options(ws, acc) ==
    IF ws = <<>> THEN acc
    ELSE LET matches == Get(Head(ws)[2], "matches")
         IN  IF ~Truthy(matches) THEN series_options(Tail(ws), acc)
             ELSE series_options(Tail(ws),
                      SetItem(acc, series_key(Head(ws)[2], Head(ws)[1]), matches))

----------------------------------------------------------------------------
(* show_live_matches: one pass of the loop over the matches of the series *)

\* variant: the section is subscripted, match["matchScore"]
section_subscript(d, k) == IF HasKey(d, k) THEN Get(d, k) ELSE Escapes("KeyError")

\* match.get("matchInfo", {}), match.get("matchScore", {}) and the like
section(d, k) == GetOr(d, k, EmptyDict)

\* st.success(...) of one team: shown if the first innings is not empty
score_line(short, inn) ==
    IF Truthy(inn)
    THEN <<[team |-> short,
            runs |-> GetOr(inn, "runs", Zero),
            wickets |-> GetOr(inn, "wickets", Zero),
            overs |-> GetOr(inn, "overs", Zero)]>>
    ELSE <<>>

\* a .get() is called on something that is no mapping: AttributeError
match_raises(match) ==
    LET info == section(match, "matchInfo")
        score == section(match, "matchScore")
        t1_score == section(score, "team1Score")
        t2_score == section(score, "team2Score")
        t1_inn == section(t1_score, "inngs1")
        t2_inn == section(t2_score, "inngs1")
    IN  \/ match.t # "dict"
        \/ \E x \in {info, score, section(info, "team1"), section(info, "team2"),
                     section(info, "venueInfo"), t1_score, t2_score} : x.t # "dict"
        \/ Truthy(t1_inn) /\ t1_inn.t # "dict"
        \/ Truthy(t2_inn) /\ t2_inn.t # "dict"

\* what the pass shows of one match; shown is the scorecard rendered under it
\* if its button was pressed
match_summary(match, shown) ==
    LET info == section(match, "matchInfo")
        score == section(match, "matchScore")
        team1_info == section(info, "team1")
        team2_info == section(info, "team2")
        team1_short == GetOr(team1_info, "teamSName", EmptyStr)
        team2_short == GetOr(team2_info, "teamSName", EmptyStr)
        match_id == GetOr(info, "matchId", EmptyStr)
        venue == section(info, "venueInfo")
    IN  [team1 |-> GetOr(team1_info, "teamName", Scalar("\"Team 1\"")),
         team2 |-> GetOr(team2_info, "teamName", Scalar("\"Team 2\"")),
         matchDesc |-> GetOr(info, "matchDesc", EmptyStr),
         matchFormat |-> GetOr(info, "matchFormat", EmptyStr),
         status |-> GetOr(info, "status", EmptyStr),
         stateTitle |-> GetOr(info, "stateTitle", EmptyStr),
         ground |-> GetOr(venue, "ground", EmptyStr),
         city |-> GetOr(venue, "city", EmptyStr),
         start |-> format_time(Get(info, "startDate")),
         end |-> format_time(Get(info, "endDate")),
         score1 |-> score_line(team1_short, section(section(score, "team1Score"), "inngs1")),
         score2 |-> score_line(team2_short, section(section(score, "team2Score"), "inngs1")),
         button |-> IF Truthy(match_id) THEN <<team1_short, team2_short, match_id>> ELSE <<>>,
         scorecard |-> IF Truthy(match_id) THEN shown ELSE <<>>]

----------------------------------------------------------------------------
(* show_live_matches *)

\* what the page shows: how the function ended, the grouping built, the
\* series selected and the summaries of its matches
Page(kind, groups, selected, summaries) ==
    [kind |-> kind, groups |-> groups, selected |-> selected, summaries |-> summaries]

\* the loop over the matches. Only the match whose button was pressed has a
\* scorecard under it. A pass raises on the match itself or in
\* show_innings_scorecard, and the loop stops at the first pass that raises: a
\* match that raises leaves at most a part of its summary, which is not
\* counted, and a scorecard that raises leaves the summary above it
live_passes(matches, l) ==
    LET shown_at(i) == IF l.pressed = i THEN <<scorecard_view(l.scorecard)>> ELSE <<>>
        pass_raises(i) ==
            \/ match_raises(matches[i])
            \/ /\ Truthy(GetOr(section(matches[i], "matchInfo"), "matchId", EmptyStr))
               /\ shown_at(i) # <<>>
               /\ shown_at(i)[1].kind = "TypeError"
        raising == {i \in 1..Len(matches) : pass_raises(i)}
        stop == IF raising = {} THEN Len(matches) + 1
                ELSE CHOOSE i \in raising : \A j \in raising : i <= j
        last == IF stop <= Len(matches) /\ ~match_raises(matches[stop])
                THEN stop ELSE stop - 1
    IN  [raised |-> raising # {},
         summaries |-> [i \in 1..last |-> match_summary(matches[i], shown_at(i))]]

\* the page after show_live_matches has run on the answer l.answer of
\* get_live_matches, with the series at position selected chosen in the select
\* box and the button of the match at position l.pressed pressed (0: none)
live_page(l, selected) ==
    IF l.answer.kind = "error" THEN Page("error", EmptyDict, 0, <<>>)
    ELSE IF ~Truthy(l.answer.doc) THEN Page("no_matches", EmptyDict, 0, <<>>)
    ELSE LET tms == type_matches(l.answer.doc) IN
         IF tms.t # "list" THEN Page("raised", EmptyDict, 0, <<>>)
         ELSE LET options == series_options(series_wrappers(tms.items), EmptyDict) IN
              IF ~Truthy(options) THEN Page("no_series", options, 0, <<>>)
              ELSE LET passes == live_passes(options.items[selected].items, l)
                   IN  Page(IF passes.raised THEN "raised" ELSE "series",
                            options, selected, passes.summaries)

ShowLiveMatches ==
    /\ cl_pc = "call"
    /\ cl_op = "show_live_matches"
    /\ \E selected \in 1..MaxSeries :
           \* the select box offers the keys of the grouping
           /\ selected <= (IF live_page(live, 1).groups = EmptyDict THEN 1
                            ELSE Len(live_page(live, 1).groups.keys))
           /\ page' = live_page(live, selected)
    /\ cl_pc' = IF page'.kind = "raised" THEN "raised" ELSE "returned"
    /\ UNCHANGED <<cl_op, http, reply, live, stats_json, frame>>
    /\ UNCHANGED <<gwVars, scVars, pgVars>>

----------------------------------------------------------------------------
(* The live-matches documents drawn *)

\* a match as the API lists it, with every field of the record
FullMatch(id, start, end) ==
    DictOf(<<
      <<"matchInfo", DictOf(<<
          <<"matchId", Scalar(id)>>,
          <<"team1", DictOf(<< <<"teamName", Str("India")>>, <<"teamSName", Str("IND")>> >>)>>,
          <<"team2", DictOf(<< <<"teamName", Str("Australia")>>, <<"teamSName", Str("AUS")>> >>)>>,
          <<"matchDesc", Str("1st Test")>>,
          <<"matchFormat", Str("TEST")>>,
          <<"status", Str("Day 1: Stumps")>>,
          <<"stateTitle", Str("Stumps")>>,
          <<"venueInfo", DictOf(<< <<"ground", Str("Eden Gardens")>>, <<"city", Str("Kolkata")>> >>)>>,
          <<"startDate", start>>,
          <<"endDate", end>> >>)>>,
      <<"matchScore", DictOf(<<
          <<"team1Score", DictOf(<< <<"inngs1", DictOf(<<
              <<"runs", Scalar("250")>>, <<"wickets", Scalar("7")>>,
              <<"overs", Scalar("89.6")>> >>)>> >>)>>,
          <<"team2Score", DictOf(<< <<"inngs1", DictOf(<<
              <<"runs", Scalar("31")>>, <<"wickets", Scalar("1")>>,
              <<"overs", Scalar("8.2")>> >>)>> >>)>> >>)>> >>)

RECURSIVE Without(_, _)
\* the document without the fields at the given paths
Without(d, paths) ==
    IF d.t # "dict" THEN d
    ELSE LET idx == SelectSeq([i \in 1..Len(d.keys) |-> i],
                              LAMBDA i : <<d.keys[i]>> \notin paths)
             below(k) == {Tail(q) : q \in {r \in paths : Len(r) > 1 /\ r[1] = k}}
         IN  Dict([j \in 1..Len(idx) |-> d.keys[idx[j]]],
                  [j \in 1..Len(idx) |-> Without(d.items[idx[j]], below(d.keys[idx[j]]))])

\* the sections of a match record and the fields in them
SectionPaths ==
    {<<"matchInfo">>, <<"matchInfo", "team1">>, <<"matchInfo", "team2">>,
     <<"matchInfo", "venueInfo">>, <<"matchScore">>, <<"matchScore", "team1Score">>,
     <<"matchScore", "team2Score">>, <<"matchScore", "team1Score", "inngs1">>,
     <<"matchScore", "team2Score", "inngs1">>}

\* match records: a full record with any of its sections missing, with any
\* two of its fields missing, with any two timestamps, and a record whose
\* matchInfo is null
MatchPool ==
    LET full == FullMatch("101", Scalar("120000"), Scalar("7260000"))
        fields ==
            {<<"matchInfo", k>> : k \in {"matchId", "matchDesc", "matchFormat", "status",
                                         "stateTitle", "startDate", "endDate"}}
            \cup {<<"matchInfo", t, k>> :
                     t \in {"team1", "team2"}, k \in {"teamName", "teamSName"}}
            \cup {<<"matchInfo", "venueInfo", k>> : k \in {"ground", "city"}}
            \cup {<<"matchScore", t, "inngs1", k>> :
                     t \in {"team1Score", "team2Score"}, k \in {"runs", "wickets", "overs"}}
        times ==
            {Scalar("120000"), Str("120000"), Scalar("150000.7"), Scalar("7260000"),
             Zero, None, EmptyStr, Str("soon"), Scalar("99999999999999999999"),
             DictOf(<< <<"ms", Scalar("120000")>> >>)}
    IN  {Without(full, P) : P \in SUBSET SectionPaths}
        \cup {Without(full, {p, q}) : p \in fields, q \in fields}
        \cup {FullMatch("101", a, b) : a \in times, b \in times}
        \cup {DictOf(<< <<"matchInfo", None>> >>)}

\* the records put in series of several matches, numbered by their place
ListedMatch(kind, id) ==
    LET full == FullMatch(id, Scalar("120000"), Str("soon"))
    IN  CASE kind = "full" -> full
          [] kind = "no_score" -> Without(full, {<<"matchScore">>})
          [] kind = "no_id" -> Without(full, {<<"matchInfo", "matchId">>})
          [] kind = "bare" -> EmptyDict
          [] OTHER -> DictOf(<< <<"matchInfo", None>>, <<"matchScore", EmptyDict>> >>)

\* the series entry at place s of the type entry at place t
SeriesEntry(kind, t, s) ==
    LET listed(n) == List([k \in 1..n |->
                        DictOf(<< <<"matchInfo", DictOf(<<
                            <<"matchId", Scalar(ToString(100 * t + 10 * s + k))>> >>)>> >>)])
        named(n) == DictOf(<< <<"seriesAdWrapper", DictOf(<<
                        <<"seriesName", Str("The Ashes")>>, <<"matches", listed(n)>> >>)>> >>)
    IN  CASE kind = "ad" -> DictOf(<< <<"adDetail", DictOf(<< <<"name", Str("ad")>> >>)>> >>)
          [] kind = "one" -> named(1)
          [] kind = "all" -> named(MaxMatches)
          [] kind = "empty" -> named(0)
          [] OTHER -> DictOf(<< <<"seriesAdWrapper",
                                  DictOf(<< <<"matches", listed(1)>> >>)>> >>)

RECURSIVE TypeLists(_, _)
\* the lists of type entries from place t on that hold at most n series
\* entries together, at least one each, under a match type or under none
TypeLists(t, n) ==
    LET entries(a) ==
            {Present([k \in {"matchType", "seriesMatches"} |->
                         IF k = "matchType" THEN mt
                         ELSE List([s \in 1..a |-> SeriesEntry(f[s], t, s)])],
                     <<"matchType", "seriesMatches">>) :
                mt \in {Absent, Str("Test"), Str("test")},
                f \in [1..a -> {"one", "all", "unnamed"}]}
    IN  {<<>>} \cup
        (IF t > MaxTypes THEN {}
         ELSE UNION {{<<e>> \o rest : e \in entries(a), rest \in TypeLists(t + 1, n - a)} :
                        a \in 1..n})

\* the calls of show_live_matches: the answer of get_live_matches, the place
\* of the match whose button is pressed (0: none) and the answer of the
\* scorecard endpoint to it. Documents without typeMatches or with odd ones,
\* documents of several series, and documents of one series of rich records
LiveCalls ==
    LET call(kind, doc, pressed, scorecard) ==
            [answer |-> [kind |-> kind, doc |-> doc], pressed |-> pressed,
             scorecard |-> scorecard]
        no_answer == [kind |-> "error", doc |-> EmptyDict]
        answers ==
            {no_answer,
             [kind |-> "doc", doc |-> DictOf(<< <<"scorecard", Scalar("5")>> >>)],
             [kind |-> "doc", doc |-> DictOf(<< <<"scoreCard", List(<<TeamOnly("IND")>>)>> >>)]}
        one_series(matches) ==
            DictOf(<< <<"typeMatches", List(<<DictOf(<<
                <<"matchType", Str("International")>>,
                <<"seriesMatches", List(<<DictOf(<< <<"seriesAdWrapper", DictOf(<<
                    <<"seriesId", Scalar("9")>>,
                    <<"seriesName", Str("Border-Gavaskar Trophy")>>,
                    <<"matches", List(matches)>> >>)>> >>)>>)>> >>)>>)>> >>)
        series == UNION {[1..n -> {"full", "no_score", "no_id", "bare", "null_info"}] :
                            n \in 1..MaxMatches}
    IN  {call("error", EmptyDict, 0, no_answer)}
        \cup {call("doc", d, 0, no_answer) : d \in
                {EmptyDict,
                 DictOf(<< <<"filters", DictOf(<< <<"matchType", List(<<>>)>> >>)>> >>),
                 DictOf(<< <<"seriesMatches", List(<<SeriesEntry("one", 1, 1)>>)>>,
                           <<"appIndex", EmptyDict>> >>),
                 DictOf(<< <<"typeMatches", None>> >>),
                 DictOf(<< <<"typeMatches", List(<<EmptyDict>>)>> >>),
                 DictOf(<< <<"typeMatches", List(<<DictOf(<<
                     <<"matchType", Str("Test")>>,
                     <<"seriesMatches", List(<<SeriesEntry("ad", 1, 1),
                         SeriesEntry("one", 1, 2), SeriesEntry("empty", 1, 3)>>)>> >>)>>)>> >>),
                 DictOf(<< <<"typeMatches", List(<<DictOf(<< <<"seriesMatches", List(<<
                     DictOf(<< <<"seriesAdWrapper", DictOf(<<
                         <<"seriesName", Str("The Ashes")>> >>)>> >>)>>)>> >>)>>)>> >>)}}
        \cup {call("doc", DictOf(<< <<"typeMatches", List(tl)>> >>), 0, no_answer) :
                 tl \in TypeLists(1, MaxSeries)}
        \cup {call("doc", one_series(<<m>>), p, a) :
                 m \in MatchPool, p \in 0..1, a \in answers}
        \cup {call("doc",
                   one_series([k \in 1..Len(f) |-> ListedMatch(f[k], ToString(200 + k))]),
                   p, a) :
                 f \in series, p \in 0..MaxMatches, a \in answers}

----------------------------------------------------------------------------
(* The stats documents and the HTTP answers drawn *)

\* stats documents: with or without headers, with or without values, the
\* entries of values with or without values of their own, of any length up to
\* one more than the headers
StatsDocs ==
    LET cells(n) == List([c \in 1..n |-> Scalar(ToString(c))])
        entry(n) == IF n < 0 THEN DictOf(<< <<"rank", Scalar("1")>> >>)
                    ELSE DictOf(<< <<"values", cells(n)>> >>)
        entries == UNION {[1..r -> -1..(MaxHeaders + 1)] : r \in 0..MaxStatRows}
    IN  {None, EmptyDict, List(<<>>)}
        \cup {Present([k \in {"appIndex", "headers", "values"} |->
                          CASE k = "appIndex" -> x
                            [] k = "headers" ->
                                 IF h < 0 THEN Absent
                                 ELSE List([c \in 1..h |-> Str("h" \o ToString(c))])
                            [] OTHER ->
                                 IF v = <<-2>> THEN Absent
                                 ELSE List([i \in 1..Len(v) |-> entry(v[i])])],
                      <<"appIndex", "headers", "values">>) :
                 x \in {Absent, Str("stats")},
                 h \in -1..MaxHeaders,
                 v \in entries \cup {<<-2>>}}

\* what a call of _request meets: the key in the environment, the network,
\* the status of the answer and its body, which parses as JSON or does not
HttpCalls ==
    [api_key : {"set", "unset", "empty"},
     network : {"ok", "timeout", "connection_error"},
     status : {200, 201, 204, 400, 403, 404, 429, 500, 503},
     body : {[parses |-> TRUE, doc |-> d] :
                d \in {EmptyDict, None, List(<<>>),
                       DictOf(<< <<"message", Str("You are not subscribed to this API.")>> >>),
                       DictOf(<< <<"typeMatches", List(<<>>)>> >>)}}
            \cup {[parses |-> FALSE, doc |-> d] :
                     d \in {EmptyStr, Str("<html>Bad Gateway</html>")}}]

----------------------------------------------------------------------------
(* api_get of the player-stats page, and what its callers make of the result *)

\* variant: raise_for_status is not caught
api_get_status_uncaught(h) ==
    IF h.network # "ok" THEN {Reply("returned", "none", "request", EmptyDict, 1)}
    ELSE IF h.status >= 400 THEN {Reply("raised", "HTTPError", "status", None, 1)}
    ELSE IF h.body.parses THEN {Reply("returned", "none", "", h.body.doc, 1)}
    ELSE {Reply("returned", "none", "request", EmptyDict, 1),
          Reply("raised", "ValueError", "json", None, 1)}

\* the outcomes of api_get: a RequestException of requests.get, and the
\* HTTPError raise_for_status raises for a status from 400 on, are reported with
\* st.error and {} is returned; the document is returned if the body parses;
\* if it does not, resp.json() raises an exception that is a RequestException
\* in requests from 2.27 on (caught, {} returned) and a plain ValueError before
\* (not caught)
api_get(h) ==
    IF h.network # "ok" THEN {Reply("returned", "none", "request", EmptyDict, 1)}
    ELSE IF h.status >= 400 THEN {Reply("returned", "none", "status", EmptyDict, 1)}
    ELSE IF h.body.parses THEN {Reply("returned", "none", "", h.body.doc, 1)}
    ELSE {Reply("returned", "none", "request", EmptyDict, 1),
          Reply("raised", "ValueError", "json", None, 1)}

\* what show_top_stats shows for the result of search_players and for the
\* result of get_player_stats
top_stats_view(results) ==
    [kind |-> "top_stats",
     search |-> IF results.t = "scalar" THEN "raised"
                ELSE IF ~HasKey(results, "player") \/ ~Truthy(Get(results, "player"))
                THEN "No players found. Try another name."
                ELSE "players",
     stats |-> LET df == parse_stats_table(results)
               IN  IF df.kind = "raised" THEN "raised"
                   ELSE IF df.rows = <<>> \/ df.columns = <<>>
                   THEN "No batting stats available."
                   ELSE "table"]

ApiGet ==
    /\ cl_pc = "call"
    /\ cl_op = "api_get"
    /\ \E r \in api_get(http) :
           /\ reply' = r
           /\ cl_pc' = r.kind
           /\ page' = IF r.kind = "raised" THEN page ELSE top_stats_view(r.doc)
    /\ UNCHANGED <<cl_op, http, live, stats_json, frame>>
    /\ UNCHANGED <<gwVars, scVars, pgVars>>

\* what a call of api_get meets: the network, the status and the body
PlayerApiCalls ==
    [network : {"ok", "timeout", "connection_error"},
     status : {200, 201, 204, 400, 403, 404, 429, 500, 503},
     body : {[parses |-> TRUE, doc |-> d] :
                d \in {EmptyDict, None,
                       DictOf(<< <<"player", List(<<>>)>> >>),
                       DictOf(<< <<"player", List(<<DictOf(<<
                           <<"id", Str("1413")>>, <<"name", Str("Virat Kohli")>> >>)>>)>> >>),
                       DictOf(<< <<"headers", List(<<Str("ROWHEADER")>>)>>,
                                 <<"values", List(<<>>)>> >>),
                       DictOf(<< <<"headers", List(<<Str("ROWHEADER")>>)>>,
                                 <<"values", List(<<DictOf(<<
                                     <<"values", List(<<Str("Matches")>>)>> >>)>>)>> >>),
                       DictOf(<< <<"message", Str("You are not subscribed to this API.")>> >>)}}
            \cup {[parses |-> FALSE, doc |-> d] :
                     d \in {EmptyStr, Str("<html>Bad Gateway</html>")}}]

----------------------------------------------------------------------------
(* SpecClient *)

InitClient ==
    /\ cl_pc = "call"
    /\ cl_op \in {"_request", "show_live_matches", "parse_stats_table", "api_get"}
    /\ IF cl_op = "_request" THEN http \in HttpCalls
       ELSE IF cl_op = "api_get" THEN http \in PlayerApiCalls
       ELSE http = Nothing
    /\ IF cl_op = "show_live_matches" THEN live \in LiveCalls ELSE live = Nothing
    /\ IF cl_op = "parse_stats_table" THEN stats_json \in StatsDocs ELSE stats_json = Nothing
    /\ reply = Nothing
    /\ page = Nothing
    /\ frame = Nothing
    /\ GatewayIdle
    /\ ScorecardIdle
    /\ PagesIdle

NextClient ==
    \/ Request
    \/ ShowLiveMatches
    \/ ParseStatsTable
    \/ ApiGet

SpecClient == InitClient /\ [][NextClient]_vars

\* one call of a gateway function or of a function of the client side
SpecCalls == (InitGateway \/ InitClient) /\ [][NextGateway \/ NextClient]_vars

----------------------------------------------------------------------------
(* The CRUD page and its session, the SQL analytics page *)

\* the servers a render of the page meets
PageServers ==
    LET db(n, tables, fail) == [name |-> n, connect_ok |-> TRUE, fail_at |-> fail,
                                tables |-> tables, views |-> <<>>]
    IN  {[admin |-> "ok", databases |-> <<db("cricbuzz_db", <<"batting_data", "players">>, "none")>>],
         [admin |-> "ok", databases |-> <<db("cricbuzz_db", <<"players">>, "none")>>],
         [admin |-> "ok", databases |-> <<db("archive_db", <<"venues">>, "none"),
                                          db("cricbuzz_db", <<"batting_data">>, "none")>>],
         [admin |-> "ok", databases |-> <<db("cricbuzz_db", <<"players">>, "columns")>>],
         [admin |-> "connect_error", databases |-> <<>>],
         [admin |-> "show_error", databases |-> <<>>]}

\* get_mysql_schema against a server: it raises when the administrative
\* connection or SHOW DATABASES fails, and returns the catalog otherwise
schema_discovery ==
    [srv \in PageServers |->
        IF srv.admin # "ok" THEN [raised |-> TRUE, schema |-> <<>>]
        ELSE [raised |-> FALSE,
              schema |-> discover_all(srv.databases,
                             [schema |-> <<>>, opened |-> 1, closed |-> 0,
                              executed |-> <<Stmt(show_databases, <<>>)>>]).schema]]

\* schema.get(database, {}).get("tables", {}).get(table, []) of a catalog that
\* get_table_columns discovers for itself
get_table_columns(srv, database, table_name) ==
    LET found == schema_discovery[srv]
        dbs == SelectSeq(found.schema, LAMBDA e : e[1] = database)
        tables == IF dbs = <<>> THEN <<>>
                  ELSE SelectSeq(dbs[1][2].tables, LAMBDA e : e[1] = table_name)
    IN  [raised |-> found.raised,
         cols |-> IF tables = <<>> THEN <<>> ELSE tables[1][2]]

\* variant: the tables discovered are added to the catalog held
held_after_patching(held, found) ==
    IF found.raised THEN held
    ELSE [held |-> TRUE, schema |-> held.schema \o found.schema]

\* st.session_state["schema"] after the discovery of the button: the catalog
\* returned takes the place of the one held; an exception leaves it alone
held_after(held, found) ==
    IF found.raised THEN held
    ELSE [held |-> TRUE, schema |-> found.schema]

\* the page down to "if not schema": the discovery of the button, the catalog
\* held afterwards, and whether the render ends here
crud_connect(held, pressed, srv) ==
    LET found == schema_discovery[srv]
        now == IF pressed = "discover" THEN held_after(held, found) ELSE held
    IN  [session |-> now,
         calls |-> IF pressed = "discover"
                   THEN <<[fn |-> "get_mysql_schema", by |-> "button"]>> ELSE <<>>,
         shown |-> IF pressed = "discover" /\ found.raised
                   THEN "Failed to connect / discover schema"
                   ELSE IF ~now.held \/ now.schema = <<>>
                   THEN "Connect first to load schema information."
                   ELSE "page"]

\* variant: a blank input is kept as an empty value
crud_clean_keeps_blank(cols_meta, values) ==
    LET idx == SelectSeq([i \in 1..Len(cols_meta) |-> i],
                         LAMBDA i : cols_meta[i].extra # "auto_increment")
    IN  [k \in 1..Len(idx) |-> <<cols_meta[idx[k]].name, values[idx[k]]>>]

\* the insert form: a column whose extra holds auto_increment gets a disabled
\* field and no entry; inputs[name] is None for an input that is blank once
\* stripped; clean keeps the entries that are not None, in the order of the
\* columns (the server reports extra in lower case, as lower() leaves it)
crud_clean(cols_meta, values) ==
    LET idx == SelectSeq([i \in 1..Len(cols_meta) |-> i],
                         LAMBDA i : /\ cols_meta[i].extra # "auto_increment"
                                    /\ Strip(values[i]) # <<>>)
    IN  [k \in 1..Len(idx) |-> <<cols_meta[idx[k]].name, values[idx[k]]>>]

\* the page from "View Table Data" on: the gateway calls it makes, each with
\* the widget that caused it, and the statement of the insert form
crud_body(srv, pressed, database, table_name, values, text, text2) ==
    LET meta == get_table_columns(srv, database, table_name)
        cols_meta == IF meta.raised THEN <<>> ELSE meta.cols
        clean == crud_clean(cols_meta, values)
        call(fn, by) == <<[fn |-> fn, by |-> by]>>
    IN  [cols_meta |-> cols_meta,
         calls |->
             (IF pressed = "load" THEN call("fetch_table", "load") ELSE <<>>)
             \o (IF pressed = "select" /\ Strip(text) # <<>> /\ run_select_allows(text)
                 THEN call("run_select", "select") ELSE <<>>)
             \o call("get_mysql_schema", "get_table_columns")
             \o (IF pressed = "insert" /\ cols_meta # <<>> /\ clean # <<>>
                 THEN call("insert_row", "insert") ELSE <<>>)
             \o (IF pressed = "delete" /\ ~delete_rows_refuses(text)
                 THEN call("delete_rows", "delete") ELSE <<>>)
             \o (IF pressed = "update" /\ ~execute_update_refuses(text, text2)
                 THEN call("execute_update", "update") ELSE <<>>),
         inserted |-> IF pressed = "insert" /\ cols_meta # <<>> /\ clean # <<>>
                      THEN <<Stmt(insert_sql(table_name, clean), insert_values(clean))>>
                      ELSE <<>>]

\* one render of show_crud_operations: at most one button is pressed, the
\* select boxes hold a database and a table of the catalog held, the fields of
\* the insert form hold the texts typed
ShowCrudOperations ==
    /\ \E pressed \in {"none", "discover", "load", "select", "insert", "delete", "update"},
          srv \in PageServers :
            LET top == crud_connect(session_schema, pressed, srv)
                base == [kind |-> "crud", pressed |-> pressed, server |-> srv,
                         database |-> "", table |-> "", values |-> <<>>,
                         text |-> <<>>, text2 |-> <<>>, cols_meta |-> <<>>,
                         calls |-> top.calls, inserted |-> <<>>, shown |-> top.shown]
            IN  /\ session_schema' = top.session
                /\ IF top.shown # "page"
                   THEN render' = base
                   ELSE \E d \in 1..Len(top.session.schema) :
                        \E t \in 1..Len(top.session.schema[d][2].tables) :
                        LET database == top.session.schema[d][1]
                            table_name == top.session.schema[d][2].tables[t][1]
                            fields == get_table_columns(srv, database, table_name).cols
                        IN
                        \E values \in IF pressed = "insert"
                                       THEN [1..3 -> {<<>>, <<" ">>, <<"7">>, <<" ", "7">>}]
                                       ELSE {[i \in 1..3 |-> <<>>]},
                           text \in IF pressed \in {"select", "delete", "update"}
                                    THEN {<<>>, <<" ">>, <<"x">>, kwSelect} ELSE {<<>>},
                           text2 \in IF pressed = "update" THEN {<<>>, <<"x">>} ELSE {<<>>} :
                            LET body == crud_body(srv, pressed, database, table_name, values,
                                                  text, text2)
                            IN  /\ \A i \in 1..3 :
                                       values[i] # <<>>
                                           => /\ i <= Len(fields)
                                              /\ fields[i].extra # "auto_increment"
                                /\ render' = [base EXCEPT !.database = database,
                                                          !.table = table_name,
                                                          !.values = values,
                                                          !.text = text,
                                                          !.text2 = text2,
                                                          !.cols_meta = body.cols_meta,
                                                          !.calls = @ \o body.calls,
                                                          !.inserted = body.inserted]
    /\ UNCHANGED <<gwVars, scVars, clVars>>

\* variant: an exception of the query leaves the page at once
show_sql_queries_query_uncaught(connect, pressed, query, query_ok) ==
    IF connect # "ok"
    THEN [events |-> <<"connect">>, shown |-> "Could not connect to the database."]
    ELSE IF ~pressed THEN [events |-> <<"connect", "close">>, shown |-> "page"]
    ELSE IF Strip(query) = <<>>
    THEN [events |-> <<"connect", "close">>, shown |-> "Please enter a query to run."]
    ELSE IF ~query_ok THEN [events |-> <<"connect", "read_sql">>, shown |-> "raised"]
    ELSE [events |-> <<"connect", "read_sql", "close">>, shown |-> "Query Results"]

\* show_sql_queries: create_connection returns None when connect raises Error or
\* the connection is not connected, and the page ends with a warning; otherwise
\* the query is run if the button is pressed and the text is not blank
\* (run_query catches every exception), and conn.close() follows in each case
show_sql_queries(connect, pressed, query, query_ok) ==
    IF connect # "ok"
    THEN [events |-> <<"connect">>, shown |-> "Could not connect to the database."]
    ELSE IF ~pressed THEN [events |-> <<"connect", "close">>, shown |-> "page"]
    ELSE IF Strip(query) = <<>>
    THEN [events |-> <<"connect", "close">>, shown |-> "Please enter a query to run."]
    ELSE IF ~query_ok
    THEN [events |-> <<"connect", "read_sql", "close">>, shown |-> "Query Error"]
    ELSE [events |-> <<"connect", "read_sql", "close">>, shown |-> "Query Results"]

\* one render of show_sql_queries
ShowSqlQueries ==
    /\ \E connect \in {"ok", "error", "not_connected"}, pressed \in BOOLEAN,
          query \in {<<>>, <<" ", "\n">>, kwSelect, <<"x">>}, query_ok \in BOOLEAN :
           /\ ~pressed => (query = kwSelect /\ query_ok)
           /\ (connect # "ok" \/ Strip(query) = <<>>) => query_ok
           /\ LET done == show_sql_queries(connect, pressed, query, query_ok)
              IN  render' = [kind |-> "sql", connect |-> connect, pressed |-> pressed,
                             query |-> query, query_ok |-> query_ok,
                             events |-> done.events, shown |-> done.shown]
    /\ UNCHANGED session_schema
    /\ UNCHANGED <<gwVars, scVars, clVars>>

----------------------------------------------------------------------------
(* SpecPages *)

InitPages ==
    /\ PagesIdle
    /\ GatewayIdle
    /\ ScorecardIdle
    /\ ClientIdle

NextPages ==
    \/ ShowCrudOperations
    \/ ShowSqlQueries

SpecPages == InitPages /\ [][NextPages]_vars

----------------------------------------------------------------------------
(* Gateway claims *)

\* a text that is empty or consists of whitespace only
Blank(s) == \A i \in 1..Len(s) : s[i] \in {" ", "\t", "\n"}

\* the call did not reach the database and changed nothing
NoDatabaseCall == opened' = 0 /\ executed' = <<>> /\ tableRows' = tableRows

\* C1: delete_rows called with an empty or whitespace-only WHERE clause raises
\* a validation error (ValueError), opens no connection and executes no
\* statement, so the table keeps its rows.
C1_DeleteRefusesBlankWhere ==
    [][(pc = "call" /\ op = "delete_rows" /\ Blank(where_clause))
           => (pc' = "raised" /\ raised' = "ValueError" /\ NoDatabaseCall)]_vars

C1_Witness ==
    /\ op = "delete_rows"
    /\ pc = "raised"
    /\ raised = "ValueError"
    /\ Len(where_clause) > 1
    /\ Blank(where_clause)

\* C2: execute_update called with a SET clause or a WHERE clause that is empty
\* or whitespace-only fails validation (ValueError) before it reaches the
\* database: no connection is opened and no UPDATE is executed.
C2_UpdateRefusesBlankClause ==
    [][(pc = "call" /\ op = "execute_update"
            /\ (Blank(set_clause) \/ Blank(where_clause)))
           => (pc' = "raised" /\ raised' = "ValueError" /\ NoDatabaseCall)]_vars

C2_Witness ==
    /\ op = "execute_update"
    /\ pc = "raised"
    /\ raised = "ValueError"
    /\ Blank(set_clause)
    /\ Len(set_clause) > 0
    /\ ~Blank(where_clause)

\* C3: insert_row called with an empty field-to-value mapping is rejected
\* before any SQL text is built, any connection opened or any statement
\* executed.
C3_InsertRejectsEmptyMap ==
    (op = "insert_row" /\ pc # "call" /\ data = <<>>)
        => (pc = "raised" /\ opened = 0 /\ executed = <<>> /\ ret.sql = <<>>)

\* the query begins, after any leading whitespace, with the letters s-e-l-e-c-t
\* in either case
SelectLetters == <<{"s", "S"}, {"e", "E"}, {"l", "L"}, {"e", "E"}, {"c", "C"}, {"t", "T"}>>
BeginsWithSelect(q) ==
    \E k \in 0..Len(q) :
        /\ k + 6 <= Len(q)
        /\ \A i \in 1..k : q[i] \in {" ", "\t", "\n"}
        /\ \A j \in 1..6 : q[k + j] \in SelectLetters[j]

\* C4: run_select rejects (ValueError), without opening a connection or
\* executing anything, every text that does not begin with "select" once
\* trimmed and lower-cased; every text that does begin with it, in any letter
\* case and after any leading whitespace, passes the check, and is handed to
\* the server exactly as given whenever the server accepts the connection.
C4_RunSelectGuard ==
    (op = "run_select" /\ pc # "call")
        => IF BeginsWithSelect(select_sql)
           THEN /\ raised # "ValueError"
                /\ opened = 1 => executed = <<Stmt(select_sql, <<>>)>>
                /\ opened = 0 => raised = "Error"
           ELSE /\ pc = "raised"
                /\ raised = "ValueError"
                /\ opened = 0
                /\ executed = <<>>

C4_Witness ==
    /\ op = "run_select"
    /\ pc = "returned"
    /\ select_sql[1] \in Whitespace
    /\ Lower(select_sql) # select_sql
    /\ executed = <<Stmt(select_sql, <<>>)>>

\* C5: every gateway operation has closed every connection it opened by the
\* time it returns or raises, whatever the database calls it made did.
C5_EveryConnectionClosed == pc # "call" => closed = opened

SystemDatabases == {"information_schema", "performance_schema", "mysql", "sys"}

\* the names of the databases in the catalog returned
CatalogNames == {ret.schema[i][1] : i \in 1..Len(ret.schema)}

\* C15: the catalog returned by schema discovery holds none of the system
\* databases information_schema, performance_schema, mysql and sys, whatever
\* the server lists and whatever the connecting user may open.
C15_NoSystemDatabase ==
    (op = "get_mysql_schema" /\ pc = "returned")
        => CatalogNames \cap SystemDatabases = {}

C15_Witness ==
    /\ op = "get_mysql_schema"
    /\ pc = "returned"
    /\ ret.schema # <<>>
    /\ \A n \in SystemDatabases :
           \E i \in 1..Len(server.databases) :
               /\ server.databases[i].name = n
               /\ server.databases[i].connect_ok
               /\ server.databases[i].fail_at = "none"
               /\ server.databases[i].tables # <<>>

\* the connection to the database and every statement of its introspection
\* go through
Healthy(db) == db.connect_ok /\ db.fail_at = "none"

\* C16: a failure while connecting to or introspecting one database omits
\* that database only: discovery returns, without an error, the catalog of
\* the databases that were introspected successfully, which is the catalog it
\* returns of a server that lists the healthy databases alone; a failure of
\* the administrative connection reaches the caller as an error.
C16_FailingDatabaseOmittedAlone ==
    (op = "get_mysql_schema" /\ pc # "call")
        => /\ server.admin = "connect_error" => (pc = "raised" /\ raised = "Error")
           /\ server.admin = "ok"
                => /\ pc = "returned"
                   /\ raised = "none"
                   /\ \A i \in 1..Len(server.databases) :
                          LET db == server.databases[i]
                          IN  /\ ~Healthy(db) => db.name \notin CatalogNames
                              /\ (Healthy(db) /\ db.tables # <<>>
                                      /\ db.name \notin SystemDatabases)
                                     => \E j \in 1..Len(ret.schema) :
                                            ret.schema[j] = <<db.name, db_info(db)>>
                   /\ ret.schema =
                          discover_all(SelectSeq(server.databases, Healthy),
                                       [schema |-> <<>>, opened |-> 0, closed |-> 0,
                                        executed |-> <<>>]).schema

C16_Witness ==
    /\ op = "get_mysql_schema"
    /\ pc = "returned"
    /\ Len(ret.schema) = 1
    /\ \E i \in 1..Len(server.databases) :
           /\ server.databases[i].fail_at = "views"
           /\ server.databases[i].name \notin SystemDatabases
    /\ \E i \in 1..Len(server.databases) :
           /\ Healthy(server.databases[i])
           /\ server.databases[i].name \in CatalogNames

\* C17: fetch_table returns at most as many rows as the limit, with the SQL
\* text that was executed; the text holds the limit as the integer int(limit)
\* (limit.n, the integer part of a fractional limit), no placeholder and not
\* the limit as it was given; a limit that int() refuses makes the call fail
\* with no statement executed.
C17_FetchLimitLiteral ==
    (op = "fetch_table" /\ pc # "call")
        => IF limit.kind \in {"text", "none"}
           THEN pc = "raised" /\ executed = <<>>
           ELSE pc = "returned"
                    => /\ ret.kind = "frame_sql"
                       /\ ret.rows <= limit.n
                       /\ executed = <<Stmt(ret.sql, <<>>)>>
                       /\ ret.sql = <<"SELECT * FROM ", BQ, table, BQ, " LIMIT ",
                                      ToString(limit.n), ";">>
                       /\ \A i \in 1..Len(ret.sql) : ret.sql[i] \notin {"%s", "?", ".5"}

C17_Witness ==
    /\ op = "fetch_table"
    /\ pc = "returned"
    /\ limit.kind = "float"
    /\ limit.n = 1
    /\ tableRows = 2
    /\ ret.rows = 1

GatewayOperations == {"fetch_table", "run_select", "insert_row", "delete_rows",
                      "execute_update"}

InsertTemplate(t, names) ==
    <<"INSERT INTO ", BQ, t, BQ, " (">>
        \o [j \in 1..(4 * Len(names) - 1) |->
               CASE j % 4 = 2 -> names[(j + 2) \div 4]
                 [] j % 4 = 0 -> ", "
                 [] OTHER -> BQ]
        \o <<") VALUES (">>
        \o [j \in 1..(2 * Len(names) - 1) |-> IF j % 2 = 1 THEN "%s" ELSE ", "]
        \o <<");">>

\* C24: for every non-empty field map the SQL text insert_row builds, executes
\* and returns lists the supplied column names, each between identifier
\* quotes and in the order of the map, then one placeholder per column; the
\* values are handed over as bound parameters only and are no part of the
\* text.
C24_InsertTemplateAndParameters ==
    (op = "insert_row" /\ data # <<>> /\ executed # <<>>)
        => /\ Len(executed) = 1
           /\ executed[1].sql = InsertTemplate(table, [i \in 1..Len(data) |-> data[i][1]])
           /\ executed[1].params = [i \in 1..Len(data) |-> data[i][2]]
           /\ \A i \in 1..Len(data), j \in 1..Len(executed[1].sql) :
                  executed[1].sql[j] # data[i][2]
           /\ pc = "returned" => (ret.kind = "affected_sql" /\ ret.sql = executed[1].sql)

C24_Witness ==
    /\ op = "insert_row"
    /\ pc = "returned"
    /\ data = << <<"name", "Kohli">>, <<"country", "India">> >>
    /\ ret.affected = 1
    /\ Len(ret.sql) = 17
    /\ ret.sql[11] = "country"

\* a database error was raised while the database was opened or introspected:
\* the connection was refused, or a statement that was reached was rejected
\* (the columns and the views are asked for only when there is a base table)
IntrospectionRaised(db) ==
    \/ ~db.connect_ok
    \/ db.fail_at = "tables"
    \/ db.tables # <<>> /\ db.fail_at \in {"columns", "views"}

\* C27: a database is in the catalog get_mysql_schema returns if and only if
\* the server lists it, it is none of the four system databases, its
\* introspection raised no database error and it has at least one base
\* table; a database that has views only is not in the catalog.
C27_CatalogMembership ==
    (op = "get_mysql_schema" /\ pc = "returned")
        => /\ \A n \in UserDbNames \cup SystemDatabases \cup {"unlisted_db"} :
                  n \in CatalogNames
                      <=> \E i \in 1..Len(server.databases) :
                              /\ server.databases[i].name = n
                              /\ n \notin SystemDatabases
                              /\ ~IntrospectionRaised(server.databases[i])
                              /\ server.databases[i].tables # <<>>
           /\ CatalogNames \subseteq UserDbNames
           /\ \A i, j \in 1..Len(ret.schema) : ret.schema[i][1] = ret.schema[j][1] => i = j

C27_Witness ==
    /\ op = "get_mysql_schema"
    /\ pc = "returned"
    /\ Len(ret.schema) = 1
    /\ \E i \in 1..Len(server.databases) :
           /\ server.databases[i].name \notin CatalogNames
           /\ server.databases[i].name \notin SystemDatabases
           /\ server.databases[i].connect_ok
           /\ server.databases[i].fail_at = "none"
           /\ server.databases[i].tables = <<>>
           /\ server.databases[i].views # <<>>

----------------------------------------------------------------------------
(* Scorecard claims *)

AlternativeKeys == <<"scorecard", "scoreCard", "innings", "scoreCards">>

\* the key is in the document and what is under it is not empty
PresentNonEmpty(d, k) ==
    /\ HasKey(d, k)
    /\ Get(d, k) \notin {None, Zero, EmptyStr, Scalar("false"), List(<<>>), Dict(<<>>, <<>>)}

\* position of the first alternative key that is present and non-empty, 0 if none is
FirstKey(d) ==
    IF \E i \in 1..4 : PresentNonEmpty(d, AlternativeKeys[i])
    THEN CHOOSE i \in 1..4 :
            /\ PresentNonEmpty(d, AlternativeKeys[i])
            /\ \A j \in 1..(i - 1) : ~PresentNonEmpty(d, AlternativeKeys[j])
    ELSE 0

\* the innings of the document, in order
SourceInnings(d) == Get(d, AlternativeKeys[FirstKey(d)]).items

Rendered == sc_pc = "done" /\ view.kind = "scorecard"

\* both keys of the column are in the record, with different values
BothDiffer(record, col) ==
    /\ HasKey(record, col[2])
    /\ HasKey(record, col[3])
    /\ Get(record, col[2]) # Get(record, col[3])

\* C6: for every batsman or bowler record in which both keys of an alias pair
\* are present with different values, the row shows the value stored under the
\* first key of the pair, whatever the two values are.
C6_FirstAliasWins ==
    Rendered =>
        \A n \in 1..Len(view.innings) :
            LET inn == SourceInnings(api.doc)[n]
                bat == participants(inn, "batsman", "batsmenData")
                bowl == participants(inn, "bowler", "bowlersData")
            IN  /\ \A p \in 1..Len(bat), c \in 1..Len(BattingColumns) :
                       BothDiffer(bat[p], BattingColumns[c])
                           => view.innings[n].batting[p][c][2]
                                  = Get(bat[p], BattingColumns[c][2])
                /\ \A p \in 1..Len(bowl), c \in 1..Len(BowlingColumns) :
                       BothDiffer(bowl[p], BowlingColumns[c])
                           => view.innings[n].bowling[p][c][2]
                                  = Get(bowl[p], BowlingColumns[c][2])

\* the dict with one key renamed, its place and value kept
RenameKey(d, from, to) ==
    Dict([i \in 1..Len(d.keys) |-> IF d.keys[i] = from THEN to ELSE d.keys[i]], d.items)

\* C7: a document that holds its innings under scoreCard and has no scorecard
\* key is rendered with exactly the innings, in the same order, of the
\* document that holds the same collection under scorecard.
C7_CamelCaseKeySameInnings ==
    (sc_pc # "call" /\ api.kind = "doc"
        /\ HasKey(api.doc, "scoreCard") /\ ~HasKey(api.doc, "scorecard"))
    => LET other == scorecard_view([kind |-> "doc",
                        doc |-> RenameKey(api.doc, "scoreCard", "scorecard")])
       IN  /\ view.kind = other.kind
           /\ view.innings = other.innings

C7_Witness ==
    /\ Rendered
    /\ ~HasKey(api.doc, "scorecard")
    /\ PresentNonEmpty(api.doc, "scoreCard")
    /\ PresentNonEmpty(api.doc, "innings")
    /\ Get(api.doc, "innings") # Get(api.doc, "scoreCard")
    /\ Len(view.innings) = 2

\* the dict with the value under key k replaced by v and k renamed to k2
Resupplied(d, k, k2, v) ==
    Dict([i \in 1..Len(d.keys) |-> IF d.keys[i] = k THEN k2 ELSE d.keys[i]],
         [i \in 1..Len(d.keys) |-> IF d.keys[i] = k THEN v ELSE d.items[i]])

\* the same line-up supplied the other way round: a list under list_key as a
\* mapping of player id to record under dict_key, and the reverse
OtherShape(inn, list_key, dict_key) ==
    IF HasKey(inn, list_key)
    THEN Resupplied(inn, list_key, dict_key, Mapping(Get(inn, list_key).items))
    ELSE Resupplied(inn, dict_key, list_key, List(Get(inn, dict_key).items))

\* exactly one of the two keys is in the innings, the list as a list or the
\* mapping as a mapping
OneShape(inn, list_key, dict_key) ==
    \/ HasKey(inn, list_key) /\ ~HasKey(inn, dict_key) /\ Get(inn, list_key).t = "list"
    \/ HasKey(inn, dict_key) /\ ~HasKey(inn, list_key) /\ Get(inn, dict_key).t = "dict"

\* C8: an innings whose batsmen (bowlers) come as a mapping of player id to
\* stats under batsmenData (bowlersData) and an innings whose batsmen (bowlers)
\* come as a list under batsman (bowler), holding the same records in the same
\* order, give identical batting and bowling rows.
C8_MappingAndListSameRows ==
    Rendered =>
        \A n \in 1..Len(view.innings) :
            LET inn == SourceInnings(api.doc)[n]
            IN  /\ OneShape(inn, "batsman", "batsmenData")
                       => batting_rows(OtherShape(inn, "batsman", "batsmenData"))
                              = view.innings[n].batting
                /\ OneShape(inn, "bowler", "bowlersData")
                       => bowling_rows(OtherShape(inn, "bowler", "bowlersData"))
                              = view.innings[n].bowling

C8_Witness ==
    /\ Rendered
    /\ Len(view.innings) = 1
    /\ LET inn == SourceInnings(api.doc)[1]
       IN  /\ OneShape(inn, "batsman", "batsmenData")
           /\ Get(inn, "batsmenData").t = "dict"
           /\ Len(view.innings[1].batting) = 2
           /\ view.innings[1].batting[1] # view.innings[1].batting[2]

\* C9: the innings rendered are those of the first key, in the order
\* scorecard, scoreCard, innings, scoreCards, whose value is present and
\* non-empty; a key that is present with an empty value is passed over.
C9_FirstNonEmptyKeyWins ==
    (sc_pc # "call" /\ api.kind = "doc" /\ FirstKey(api.doc) # 0)
    => LET found == Get(api.doc, AlternativeKeys[FirstKey(api.doc)])
       IN  IF found.t = "scalar"
           THEN sc_pc = "raised"
           ELSE /\ Rendered
                /\ view.innings =
                       [i \in 1..Len(found.items) |-> innings_view(i, found.items[i])]

C9_Witness ==
    /\ Rendered
    /\ HasKey(api.doc, "scorecard")
    /\ Get(api.doc, "scorecard") = List(<<>>)
    /\ HasKey(api.doc, "scoreCard")
    /\ FirstKey(api.doc) = 3
    /\ PresentNonEmpty(api.doc, "scoreCards")
    /\ Len(view.innings) = 2

NoCollection == sc_pc # "call" /\ api.kind = "doc" /\ FirstKey(api.doc) = 0

\* C10 as claimed: every document in which none of the four keys holds an
\* innings collection, the empty document included, renders no innings and
\* shows the raw-payload fallback view.
C10_FallbackForEveryDocument ==
    NoCollection
    => /\ view.kind = "fallback"
       /\ view.raw = <<api.doc>>
       /\ view.innings = <<>>

\* C10 as amended: every such document renders no innings; a non-empty one
\* shows the raw-payload fallback view, and the empty document shows the
\* no-response warning without the raw payload.
C10_FallbackForNonEmptyDocument ==
    NoCollection
    => /\ view.innings = <<>>
       /\ sc_pc = "done"
       /\ IF api.doc = Dict(<<>>, <<>>)
          THEN view.kind = "no_response" /\ view.raw = <<>>
          ELSE view.kind = "fallback" /\ view.raw = <<api.doc>>

C10_Witness ==
    /\ NoCollection
    /\ HasKey(api.doc, "scorecard")
    /\ HasKey(api.doc, "scoreCards")
    /\ view.kind = "fallback"
    /\ view.raw = <<api.doc>>

----------------------------------------------------------------------------
(* Live-matches claims *)

LiveDone == cl_op = "show_live_matches" /\ cl_pc # "call"

\* the answer of get_live_matches is a document without the key typeMatches
LacksGroupingKey ==
    /\ cl_op = "show_live_matches"
    /\ live.answer.kind = "doc"
    /\ ~HasKey(live.answer.doc, "typeMatches")

\* C11: for every live-matches document without the key typeMatches the
\* grouping of series to matches is empty, the page reports that there are no
\* live matches or no series, and no exception is raised.
C11_NoGroupingKeyNoSeries ==
    (LiveDone /\ LacksGroupingKey)
        => /\ cl_pc = "returned"
           /\ page.groups = EmptyDict
           /\ page.kind \in {"no_matches", "no_series"}
           /\ page.summaries = <<>>

C11_Witness ==
    /\ LiveDone
    /\ LacksGroupingKey
    /\ HasKey(live.answer.doc, "seriesMatches")
    /\ page.kind = "no_series"
    /\ page.groups = EmptyDict

\* the grouping was built of a document that has a list under typeMatches
Grouped ==
    /\ LiveDone
    /\ live.answer.kind = "doc"
    /\ Truthy(live.answer.doc)
    /\ Get(live.answer.doc, "typeMatches").t = "list"

RECURSIVE MatchesUnder(_, _)
\* the matches of all series entries with the key k, in the order of the document
MatchesUnder(ws, k) ==
    IF ws = <<>> THEN <<>>
    ELSE (IF Truthy(Get(Head(ws)[2], "matches")) /\ series_key(Head(ws)[2], Head(ws)[1]) = k
          THEN Get(Head(ws)[2], "matches").items ELSE <<>>)
         \o MatchesUnder(Tail(ws), k)

\* C12: every match listed under a series entry with a non-empty match list
\* is in the group of its (series name, match type) key, and each group holds
\* its matches in the order the document lists them, however many series
\* entries share the key.
C12_EveryMatchInItsGroup ==
    Grouped =>
        LET ws == series_wrappers(Get(live.answer.doc, "typeMatches").items)
        IN  \A i \in 1..Len(ws) :
                Truthy(Get(ws[i][2], "matches"))
                    => LET k == series_key(ws[i][2], ws[i][1])
                       IN  /\ HasKey(page.groups, k)
                           /\ Get(page.groups, k).items = MatchesUnder(ws, k)

RECURSIVE At(_, _)
\* what the document holds at the path, Absent if the path leads nowhere
At(d, path) ==
    IF path = <<>> THEN d
    ELSE IF d.t = "dict" /\ HasKey(d, Head(path)) THEN At(Get(d, Head(path)), Tail(path))
    ELSE Absent

\* the record is a mapping and each of its sections that is present is one
Documented(match) ==
    /\ match.t = "dict"
    /\ \A p \in SectionPaths : At(match, p).t \in {"absent", "dict"}

\* a series was selected, its matches are documented records, and no
\* scorecard shown under a pressed button raised
SeriesOfRecords ==
    /\ LiveDone
    /\ page.selected > 0
    /\ \A i \in 1..Len(page.groups.items[page.selected].items) :
           Documented(page.groups.items[page.selected].items[i])
    /\ live.pressed = 0 \/ scorecard_view(live.scorecard).kind # "TypeError"

\* C13: for a selected series of k matches exactly k summaries are rendered,
\* in the order of the matches; a match without the key matchScore is
\* rendered with no score line for either team, raises nothing and does not
\* keep the matches after it from being rendered.
C13_OneSummaryPerMatch ==
    SeriesOfRecords =>
        LET matches == page.groups.items[page.selected].items
        IN  /\ cl_pc = "returned"
            /\ Len(page.summaries) = Len(matches)
            /\ \A i \in 1..Len(matches) :
                   /\ Truthy(At(matches[i], <<"matchInfo", "matchId">>))
                          => page.summaries[i].button[3]
                                 = At(matches[i], <<"matchInfo", "matchId">>)
                   /\ ~HasKey(matches[i], "matchScore")
                          => /\ page.summaries[i].score1 = <<>>
                             /\ page.summaries[i].score2 = <<>>

C13_Witness ==
    /\ SeriesOfRecords
    /\ Len(page.summaries) = 2
    /\ HasKey(page.groups.items[page.selected].items[1], "matchScore")
    /\ page.summaries[1].score1 # <<>>
    /\ page.summaries[1].score2 # <<>>
    /\ ~HasKey(page.groups.items[page.selected].items[2], "matchScore")
    /\ page.summaries[2].score1 = <<>>
    /\ page.summaries[2].button # <<>>

\* the fields of a summary that show a field of the record, with its default
ShownFields ==
    {<<"team1", <<"matchInfo", "team1", "teamName">>, Scalar("\"Team 1\"")>>,
     <<"team2", <<"matchInfo", "team2", "teamName">>, Scalar("\"Team 2\"")>>,
     <<"matchDesc", <<"matchInfo", "matchDesc">>, EmptyStr>>,
     <<"matchFormat", <<"matchInfo", "matchFormat">>, EmptyStr>>,
     <<"status", <<"matchInfo", "status">>, EmptyStr>>,
     <<"stateTitle", <<"matchInfo", "stateTitle">>, EmptyStr>>,
     <<"ground", <<"matchInfo", "venueInfo", "ground">>, EmptyStr>>,
     <<"city", <<"matchInfo", "venueInfo", "city">>, EmptyStr>>}

\* timestamps that are no time: null, empty or other text, a mapping, a
\* number beyond the range of dates
NoTime ==
    {Absent, None, EmptyStr, Scalar("\"soon\""), Scalar("99999999999999999999"),
     DictOf(<< <<"ms", Scalar("120000")>> >>)}

\* the score line of a team: none without a first innings, else the numbers
\* of the innings, 0 for each that is absent
ScoreShown(line, match, team, short) ==
    LET inn == At(match, <<"matchScore", team, "inngs1">>)
    IN  IF inn \in {Absent, EmptyDict} THEN line = <<>>
        ELSE /\ Len(line) = 1
             /\ line[1].team = (IF At(match, short) = Absent THEN EmptyStr ELSE At(match, short))
             /\ \A k \in {"runs", "wickets", "overs"} :
                    line[1][k] = (IF HasKey(inn, k) THEN Get(inn, k) ELSE Zero)

\* C14: for every match record, whichever of its fields are absent, the
\* rendering shows the default of each absent field ("Team 1" and "Team 2"
\* for the team names, empty text, "N/A" for a missing or invalid timestamp,
\* 0 for a missing score number) and raises nothing.
C14_AbsentFieldsShowDefaults ==
    SeriesOfRecords =>
        LET matches == page.groups.items[page.selected].items
        IN  /\ cl_pc = "returned"
            /\ \A i \in 1..Len(matches) :
                 /\ i <= Len(page.summaries)
                 /\ \A f \in ShownFields :
                        page.summaries[i][f[1]] =
                            (IF At(matches[i], f[2]) = Absent THEN f[3]
                             ELSE At(matches[i], f[2]))
                 /\ At(matches[i], <<"matchInfo", "startDate">>) \in NoTime
                        => page.summaries[i].start = Scalar("\"N/A\"")
                 /\ At(matches[i], <<"matchInfo", "endDate">>) \in NoTime
                        => page.summaries[i].end = Scalar("\"N/A\"")
                 /\ ScoreShown(page.summaries[i].score1, matches[i], "team1Score",
                               <<"matchInfo", "team1", "teamSName">>)
                 /\ ScoreShown(page.summaries[i].score2, matches[i], "team2Score",
                               <<"matchInfo", "team2", "teamSName">>)

C14_Witness ==
    /\ SeriesOfRecords
    /\ Len(page.summaries) = 1
    /\ LET match == page.groups.items[page.selected].items[1]
       IN  /\ At(match, <<"matchInfo", "team1">>) = Absent
           /\ At(match, <<"matchInfo", "venueInfo">>) = Absent
           /\ At(match, <<"matchScore", "team2Score">>) = Absent
           /\ At(match, <<"matchInfo", "status">>) # Absent
           /\ page.summaries[1].team1 = Scalar("\"Team 1\"")
           /\ page.summaries[1].team2 # Scalar("\"Team 2\"")
           /\ page.summaries[1].score1 # <<>>

----------------------------------------------------------------------------
(* Stats-table and API-client claims *)

\* C18: parse_stats_table returns an empty table, with no row and no column,
\* whenever the stats document is empty, has no headers or has no values.
C18_UnusableStatsEmptyTable ==
    (cl_op = "parse_stats_table" /\ cl_pc # "call"
        /\ (\/ stats_json \in {None, EmptyDict, List(<<>>)}
            \/ ~HasKey(stats_json, "headers")
            \/ ~HasKey(stats_json, "values")))
        => /\ cl_pc = "returned"
           /\ frame.kind = "frame"
           /\ frame.columns = <<>>
           /\ frame.rows = <<>>

C18_Witness ==
    /\ cl_op = "parse_stats_table"
    /\ cl_pc = "returned"
    /\ HasKey(stats_json, "headers")
    /\ Len(Get(stats_json, "headers").items) = 2
    /\ ~HasKey(stats_json, "values")
    /\ frame.columns = <<>>
    /\ frame.rows = <<>>

\* C26: when headers and values are both present, parse_stats_table returns a
\* table whose columns are the headers, with one row per entry of values that
\* holds the values of the entry, and raises for no such document: not for an
\* entry without values and not for a row whose length is not the number of
\* headers.
C26_TableForEveryShape ==
    (cl_op = "parse_stats_table" /\ cl_pc # "call"
        /\ HasKey(stats_json, "headers") /\ HasKey(stats_json, "values"))
        => /\ cl_pc = "returned"
           /\ frame.kind = "frame"
           /\ frame.columns = Get(stats_json, "headers").items
           /\ Len(frame.rows) = Len(Get(stats_json, "values").items)
           /\ \A i \in 1..Len(frame.rows) :
                  LET given == GetOr(Get(stats_json, "values").items[i], "values",
                                     List(<<>>)).items
                  IN  /\ Len(given) <= Len(frame.rows[i])
                      /\ \A c \in 1..Len(given) : frame.rows[i][c] = given[c]

\* C20: _request returns a parsed document only when the status is 200 and
\* the body parses as JSON; on a network failure, on every other status,
\* whether its body parses or not, and on a body of a 200 answer that does not
\* parse, it raises CricbuzzAPIError, and no other exception leaves it.
C20_RequestOutcome ==
    (cl_op = "_request" /\ cl_pc # "call")
        => IF /\ http.api_key = "set"
              /\ http.network = "ok"
              /\ http.status = 200
              /\ http.body.parses
           THEN cl_pc = "returned" /\ reply.doc = http.body.doc
           ELSE cl_pc = "raised" /\ reply.exc = "CricbuzzAPIError"

C20_Witness ==
    /\ cl_op = "_request"
    /\ cl_pc = "raised"
    /\ reply.exc = "CricbuzzAPIError"
    /\ http.api_key = "set"
    /\ http.network = "ok"
    /\ http.status = 204
    /\ http.body.parses

\* C28: api_get raises neither on an HTTP error status nor on a failure of the
\* request: it returns an empty mapping, and its callers show for it what they
\* show for a call that succeeded and returned no data: no players found, no
\* stats available.
C28_FailedCallLooksEmpty ==
    (cl_op = "api_get" /\ cl_pc # "call" /\ (http.network # "ok" \/ http.status >= 400))
        => /\ cl_pc = "returned"
           /\ reply.doc = EmptyDict
           /\ reply.sent = 1
           /\ page.search = "No players found. Try another name."
           /\ page.stats = "No batting stats available."
           /\ page = top_stats_view(DictOf(<< <<"player", List(<<>>)>> >>))
           /\ page = top_stats_view(DictOf(<< <<"headers", List(<<Str("ROWHEADER")>>)>>,
                                              <<"values", List(<<>>)>> >>))

C28_Witness ==
    /\ cl_op = "api_get"
    /\ cl_pc = "returned"
    /\ http.network = "ok"
    /\ http.status = 429
    /\ http.body.parses
    /\ HasKey(http.body.doc, "player")
    /\ Truthy(Get(http.body.doc, "player"))
    /\ page.search = "No players found. Try another name."

\* C30: when the API key is not configured (RAPIDAPI_KEY unset or empty),
\* every call of _request raises CricbuzzAPIError before any HTTP request is
\* sent, whatever the network and the server would have answered.
C30_NoKeyNoRequest ==
    (cl_op = "_request" /\ cl_pc # "call" /\ http.api_key # "set")
        => /\ cl_pc = "raised"
           /\ reply.exc = "CricbuzzAPIError"
           /\ reply.why = "key"
           /\ reply.sent = 0

C30_Witness ==
    /\ cl_op = "_request"
    /\ cl_pc = "raised"
    /\ http.api_key = "empty"
    /\ http.network = "timeout"
    /\ reply.sent = 0
    /\ reply.why = "key"

----------------------------------------------------------------------------
(* Claims about both the gateway and the API client *)

\* _request has ended having sent at most one request, with the error if the
\* request, the status or the body failed
RequestAtMostOnce ==
    (cl_op = "_request" /\ cl_pc # "call")
        => /\ reply.sent <= 1
           /\ (http.network # "ok" \/ http.status # 200 \/ ~http.body.parses)
                  => (cl_pc = "raised" /\ reply.exc = "CricbuzzAPIError")

\* a CRUD operation has ended having opened at most one connection and handed
\* at most one statement to the server, and without a result if it raised
CrudAtMostOnce ==
    (op \in GatewayOperations /\ pc # "call")
        => /\ opened <= 1
           /\ Len(executed) <= 1
           /\ pc = "raised" => (ret = NoRet /\ raised # "none")
           /\ pc = "returned" => (raised = "none" /\ Len(executed) = 1)

\* the databases of the server that discovery opens or tries to open
Visited == {i \in 1..Len(server.databases) : server.databases[i].name \notin SystemDatabases}

\* C23 as claimed: every API call and every gateway operation makes at most
\* one attempt; after a failure of its request or of a statement it issues
\* nothing further and ends with the error.
C23_EveryFailureEndsTheOperation ==
    /\ RequestAtMostOnce
    /\ CrudAtMostOnce
    /\ (op = "get_mysql_schema" /\ pc # "call")
           => ((\/ server.admin # "ok"
                \/ \E i \in Visited : IntrospectionRaised(server.databases[i]))
                   => (pc = "raised" /\ ret = NoRet))

\* the statements discovery handed to the server about the database db
AskedOf(db) ==
    {k \in 1..Len(executed) :
        executed[k].sql = col_sql /\ executed[k].params[1] = db.name}

\* C23 as amended: _request and the five CRUD operations make at most one
\* attempt and end with the error.  Discovery ends with the error when the
\* administrative connection or SHOW DATABASES fails, having handed over at
\* most that one statement; a failure on one database ends the work on that
\* database only: nothing is repeated, every database is opened at most once,
\* the columns of a table are asked for at most once and, after a rejected
\* statement, nothing more is asked of that database, while the remaining
\* databases are still introspected and the call returns.
C23_AtMostOneAttempt ==
    /\ RequestAtMostOnce
    /\ CrudAtMostOnce
    /\ (op = "get_mysql_schema" /\ pc # "call")
           => IF server.admin # "ok"
              THEN pc = "raised" /\ ret = NoRet /\ opened <= 1 /\ Len(executed) <= 1
              ELSE /\ pc = "returned"
                   /\ opened = 1 + Cardinality({i \in Visited : server.databases[i].connect_ok})
                   /\ Cardinality({k \in 1..Len(executed) : executed[k].sql = show_databases}) = 1
                   /\ Cardinality({k \in 1..Len(executed) : executed[k].sql = show_base_tables})
                          = Cardinality({i \in Visited : server.databases[i].connect_ok})
                   /\ \A k, l \in 1..Len(executed) :
                          (executed[k] = executed[l] /\ executed[k].sql = col_sql) => k = l
                   /\ \A i \in Visited :
                          LET db == server.databases[i]
                          IN  Cardinality(AskedOf(db)) =
                                  (IF ~db.connect_ok \/ db.fail_at = "tables" THEN 0
                                   ELSE IF db.tables # <<>> /\ db.fail_at = "columns" THEN 1
                                   ELSE Len(db.tables))

C23_Witness ==
    /\ op = "get_mysql_schema"
    /\ pc = "returned"
    /\ \E i, j \in 1..Len(server.databases) :
           /\ i < j
           /\ server.databases[i].connect_ok
           /\ server.databases[i].fail_at = "columns"
           /\ server.databases[i].name \notin CatalogNames
           /\ server.databases[j].name \in CatalogNames
           /\ Cardinality(AskedOf(server.databases[i])) = 1
           /\ Cardinality(AskedOf(server.databases[j])) = 2

----------------------------------------------------------------------------
(* Claims about the CRUD page and the SQL analytics page *)

\* C21: a full schema discovery runs only as the effect of the button
\* "Connect & Discover Databases": in no render does anything but that button
\* make the gateway discover the schema.
C21_DiscoveryOnlyByButton ==
    render.kind = "crud"
        => \A k \in 1..Len(render.calls) :
               render.calls[k].fn = "get_mysql_schema"
                   => (render.pressed = "discover" /\ render.calls[k].by = "button")

\* C22: the catalog held in the session changes only when a discovery
\* succeeds, and is then the catalog that discovery returned and nothing of
\* the one held before; a discovery that fails leaves it as it was, and so does
\* every render in which another button, or none, is pressed, on either page.
C22_CatalogReplacedOnlyByDiscovery ==
    [][IF /\ render'.kind = "crud"
          /\ render'.pressed = "discover"
          /\ render'.server.admin = "ok"
       THEN session_schema' = [held |-> TRUE,
                               schema |-> schema_discovery[render'.server].schema]
       ELSE session_schema' = session_schema]_vars

C22_Witness ==
    /\ render.kind = "crud"
    /\ render.pressed = "discover"
    /\ render.server.admin = "connect_error"
    /\ render.shown = "Failed to connect / discover schema"
    /\ session_schema.held
    /\ Len(session_schema.schema) = 2

\* the fields of the insert form that were given a text that is not blank
Filled ==
    SelectSeq([i \in 1..Len(render.cols_meta) |-> i],
              LAMBDA i : ~Blank(render.values[i]))

\* C25: when the insert form is submitted, a column whose input was left
\* empty or holds whitespace only, and every auto-increment column, is left
\* out of the INSERT: its column list is the list of the columns that were
\* given a non-blank value, and nothing is inserted when there is none.
C25_InsertListsFilledColumns ==
    (render.kind = "crud" /\ render.pressed = "insert" /\ render.cols_meta # <<>>)
        => /\ \A i \in 1..Len(Filled) :
                  render.cols_meta[Filled[i]].extra # "auto_increment"
           /\ IF Filled = <<>>
              THEN /\ render.inserted = <<>>
                   /\ \A k \in 1..Len(render.calls) : render.calls[k].fn # "insert_row"
              ELSE /\ Len(render.inserted) = 1
                   /\ render.inserted[1].sql =
                          InsertTemplate(render.table,
                              [k \in 1..Len(Filled) |-> render.cols_meta[Filled[k]].name])
                   /\ render.inserted[1].params =
                          [k \in 1..Len(Filled) |-> render.values[Filled[k]]]
                   /\ \E k \in 1..Len(render.calls) : render.calls[k].fn = "insert_row"

C25_Witness ==
    /\ render.kind = "crud"
    /\ render.pressed = "insert"
    /\ render.table = "batting_data"
    /\ Len(render.cols_meta) = 3
    /\ render.values = <<<<>>, <<" ">>, <<" ", "7">>>>
    /\ Len(render.inserted) = 1
    /\ render.inserted[1].sql = <<"INSERT INTO ", BQ, "batting_data", BQ, " (",
                                  BQ, "runs", BQ, ") VALUES (", "%s", ");">>

\* C29: in every render of the SQL analytics page in which create_connection
\* returns a connection, the connection is closed before the render ends,
\* whether no query was run, the query went through or the query failed; when
\* create_connection fails no query is executed.
C29_ConnectionClosedEachRender ==
    render.kind = "sql"
        => LET n == Len(render.events)
               at(e) == {k \in 1..n : render.events[k] = e}
           IN  IF render.connect = "ok"
               THEN /\ render.events[n] = "close"
                    /\ Cardinality(at("close")) = 1
                    /\ Cardinality(at("read_sql"))
                           = (IF render.pressed /\ ~Blank(render.query) THEN 1 ELSE 0)
               ELSE /\ at("read_sql") = {}
                    /\ at("close") = {}
                    /\ render.shown = "Could not connect to the database."

C29_Witness ==
    /\ render.kind = "sql"
    /\ render.connect = "ok"
    /\ render.pressed
    /\ ~render.query_ok
    /\ render.shown = "Query Error"
    /\ render.events = <<"connect", "read_sql", "close">>

====
